---- MODULE Spec2Model ----
(***************************************************************************)
(* Session / transport lifecycle of express-mcp-handler.                   *)
(*                                                                         *)
(* Three coordinators are modelled from their sources:                     *)
(*   statefulHandlers  (src/src/stateful.ts)  postHandler, get/delete      *)
(*   statelessHandler  (src/src/stateless.ts)                              *)
(*   sseHandlers       (src/src/sse.ts)       getHandler, postHandler      *)
(*                                                                         *)
(* Every handler is an async function: the code between two awaits is one  *)
(* atomic step.  The SDK transport, the engine and the response object are *)
(* the environment: they resolve or reject the awaited promises, write     *)
(* output, fire the transport hooks and emit 'close' on the response.      *)
(* A behaviour exercises the coordinator selected by `mode`.  Spec runs one *)
(* instance of it; SpecPair runs two instances created by two calls of the *)
(* same factory function, each with the registry its call allocated.       *)
(***************************************************************************)
EXTENDS Integers, Sequences, FiniteSets, TLC

\* ------------------------------------------------------------------ bounds
MaxOps == 2          \* inbound operations (requests) per behaviour
MaxIds == 2          \* distinct session identifiers the generators return
MaxSinkClose == 2    \* 'close' notifications one response may deliver

\* --------------------------------------------------------------- constants
None == 0            \* undefined: no header, no channel, no engine, no error

Ops    == 1..MaxOps
Chans  == 1..MaxOps  \* an operation constructs at most one channel
Srvs   == 1..MaxOps  \* an operation calls the server factory at most once
Ids    == 1..MaxIds
\* The registries are plain objects ({}): a header or query value that names a
\* member of Object.prototype ('constructor', 'toString', '__proto__', ...)
\* reads that member, which is truthy and is not a channel.
ProtoKey == -1       \* such a header / query value
ProtoMember == -2    \* what transports[ProtoKey] evaluates to
\* values of the mcp-session-id header and of the sessionId query parameter
Keys   == Ids \cup {None, ProtoKey}
\* every throw raises its own Error object: the one thrown inside operation o
ErrOf(o) == 100 + o
Modes  == {"stateful", "stateless", "sse"}
\* coordinator instances: the results of two calls of statefulHandlers(...)
\* or of sseHandlers(...)
Insts  == {1, 2}
Methods == {"POST", "GET"}

\* Response bodies written by the coordinators themselves.
Resp400Json == [status |-> 400, kind |-> "jsonrpc", code |-> -32000, id |-> "null",
                message |-> "Invalid request: session ID required or initialization expected"]
Resp500Json == [status |-> 500, kind |-> "jsonrpc", code |-> -32603, id |-> "null",
                message |-> "Internal server error"]
Resp405Json == [status |-> 405, kind |-> "jsonrpc", code |-> -32000, id |-> "null",
                message |-> "Method not allowed"]
Resp400Text == [status |-> 400, kind |-> "text", code |-> 0, id |-> "",
                message |-> "Invalid or missing session ID"]
Resp500Text == [status |-> 500, kind |-> "text", code |-> 0, id |-> "",
                message |-> "Internal server error"]
Resp400NoTransport == [status |-> 400, kind |-> "text", code |-> 0, id |-> "",
                message |-> "No transport found for sessionId"]

VARIABLES
  mode,         \* which coordinator instance this behaviour exercises
  withCallbacks,\* whether the optional callbacks of `options` are supplied
  nstarted,     \* number of operations that have entered their handler
  kind,         \* kind[o]: "post" | "get" | "delete" | "stateless" | "open" | "deliver"
  req,          \* req[o]: [method, sid, init] of the request
  pc,           \* pc[o]: "idle" | "binding" | "handling" | "done"
  tr,           \* tr[o]: the handler's local `transport` (None = undefined)
  srv,          \* srv[o]: the handler's local `server` / serverFactory() result
  made,         \* made[o]: the channel constructed by o (None if none)
  headersSent,  \* headersSent[o]: res.headersSent as read by o's catch block
  out,          \* out[o]: responses written by the coordinator on res
  thrown,       \* thrown[o]: the error thrown inside o's try block (None if none)
  trace,        \* trace[o]: calls made by o's handler and its sink listener, in order
  nchan,        \* channels constructed so far
  nsrv,         \* engines produced by the server factory so far
  sessionId,    \* sessionId[c]: transport.sessionId
  boundTo,      \* boundTo[c]: engine connected to channel c
  chClosed,     \* chClosed[c]: the channel's onclose hook has fired
  hookLog,      \* hookLog[c]: what the hooks attached to channel c did, in order
  transports,   \* the registry: set of <<id, channel>> entries
  listening,    \* listening[o]: a 'close' listener is registered on o's res
  sinkCloses,   \* sinkCloses[o]: 'close' notifications delivered by o's res
  hookRuns,     \* hookRuns[o]: times o's 'close' listener was invoked
  inst,         \* inst[o]: the coordinator instance whose handler serves o
  cur,          \* the instance whose closures run: `transports` is its registry
  other         \* the registry of the instance that is not running

vars == <<mode, withCallbacks, nstarted, kind, req, pc, tr, srv, made,
          headersSent, out, thrown, trace, nchan, nsrv, sessionId, boundTo,
          chClosed, hookLog, transports, listening, sinkCloses, hookRuns,
          inst, cur, other>>

opVars   == <<kind, req, pc, tr, srv, made, headersSent, out, thrown, trace>>
chanVars == <<nchan, nsrv, sessionId, boundTo, chClosed, hookLog>>
sinkVars == <<listening, sinkCloses, hookRuns>>
instVars == <<inst, cur, other>>
cfgVars  == <<mode, withCallbacks, instVars>>

\* ---------------------------------------------------------------- registry
\* the registry has an entry (an own property) for id
Held(reg, id) == \E e \in reg : e[1] = id

\* transports[id]: the entry's channel, else an inherited member, else undefined
Lookup(reg, id) ==
  IF Held(reg, id)
    THEN (CHOOSE e \in reg : e[1] = id)[2]
    ELSE IF id = ProtoKey THEN ProtoMember ELSE None

RemoveAll(reg, id) == {}

\* delete transports[id]
Remove(reg, id) == {e \in reg : e[1] # id}

InsertIfAbsent(reg, id, c) ==
  IF \E e \in reg : e[1] = id THEN reg ELSE reg \cup {<<id, c>>}

InsertKeepOld(reg, id, c) == reg \cup {<<id, c>>}

\* transports[id] = c   (property assignment: replaces what was there)
Insert(reg, id, c) == Remove(reg, id) \cup {<<id, c>>}

\* the truthiness test `transports[id]` of the handlers
Registered(reg, id) == Lookup(reg, id) # None

\* Session ids are opaque strings: the ids a generator has returned are named
\* 1, 2, ... in the order of their first appearance, and a generator call
\* returns one of them again (a duplicate) or the next fresh one.
UsedIds(sid) == {sid[c] : c \in DOMAIN sid} \ {None}
Generated(sid) == {i \in Ids : i <= Cardinality(UsedIds(sid)) + 1}

\* ----------------------------------------------------------- error handling
ErrorResponseAlways(hs, resp) == <<resp>>

\* if (!res.headersSent) res.status(500)...
ErrorResponse(hs, resp) == IF hs THEN <<>> ELSE <<resp>>

CatchCallsNoNextWhenSent(cb, e, sid, hs) ==
  (IF cb THEN << <<"onError", e, sid>> >> ELSE <<>>)
    \o (IF hs THEN <<>> ELSE << <<"respond", 500, 0>>, <<"next", e, 0>> >>)

\* the catch block shared by the handlers: onError?, guarded 500, next(error)
CatchCalls(cb, e, sid, hs) ==
  (IF cb THEN << <<"onError", e, sid>> >> ELSE <<>>)
    \o (IF hs THEN <<>> ELSE << <<"respond", 500, 0>> >>)
    \o << <<"next", e, 0>> >>

CaughtWithoutCallback(o, pre, e, sid, resp) ==
  \E hs \in BOOLEAN :
    /\ thrown' = [thrown EXCEPT ![o] = e]
    /\ headersSent' = [headersSent EXCEPT ![o] = hs]
    /\ trace' = [trace EXCEPT ![o] = @ \o pre \o CatchCalls(FALSE, e, sid, hs)]
    /\ out' = [out EXCEPT ![o] = @ \o ErrorResponse(hs, resp)]
    /\ pc' = [pc EXCEPT ![o] = "done"]

\* State change of an operation o that catches error e after having made the
\* calls `pre` in this step; `resp` is the 500 body of the handler.  Whether
\* output was already written on res (by the channel, or upstream) is the
\* environment's: the catch block reads it in res.headersSent.
Caught(o, pre, e, sid, resp) ==
  \E hs \in BOOLEAN :
    /\ thrown' = [thrown EXCEPT ![o] = e]
    /\ headersSent' = [headersSent EXCEPT ![o] = hs]
    /\ trace' = [trace EXCEPT ![o] = @ \o pre \o CatchCalls(withCallbacks, e, sid, hs)]
    /\ out' = [out EXCEPT ![o] = @ \o ErrorResponse(hs, resp)]
    /\ pc' = [pc EXCEPT ![o] = "done"]

DelegateDeferred(o, t, ev, sid, resp) ==
  /\ pc' = [pc EXCEPT ![o] = "handling"]
  /\ UNCHANGED <<headersSent, out, thrown, trace>>

DelegateTwice(o, t, ev, sid, resp) ==
  /\ trace' = [trace EXCEPT ![o] = @ \o <<ev, ev>>]
  /\ pc' = [pc EXCEPT ![o] = "handling"]
  /\ UNCHANGED <<headersSent, out, thrown>>

\* `await t.<entrypoint>(req, res, ...)` on what the lookup returned: a channel
\* is called (event ev) and the operation is suspended; a value that has no
\* such method makes the call expression throw a TypeError into the catch block.
Delegate(o, t, ev, sid, resp) ==
  IF t = ProtoMember
    THEN Caught(o, <<>>, ErrOf(o), sid, resp)
    ELSE /\ trace' = [trace EXCEPT ![o] = Append(@, ev)]
         /\ pc' = [pc EXCEPT ![o] = "handling"]
         /\ UNCHANGED <<headersSent, out, thrown>>

\* ------------------------------------------------------------------- Init
\* the state after the coordinator was created, before any request
Created ==
  /\ mode \in Modes
  /\ withCallbacks \in BOOLEAN
  /\ nstarted = 0
  /\ kind = [o \in Ops |-> "none"]
  /\ req = [o \in Ops |-> [method |-> "POST", sid |-> None, init |-> FALSE]]
  /\ pc = [o \in Ops |-> "idle"]
  /\ tr = [o \in Ops |-> None]
  /\ srv = [o \in Ops |-> None]
  /\ made = [o \in Ops |-> None]
  /\ headersSent = [o \in Ops |-> FALSE]
  /\ out = [o \in Ops |-> <<>>]
  /\ thrown = [o \in Ops |-> None]
  /\ trace = [o \in Ops |-> <<>>]
  /\ nchan = 0
  /\ nsrv = 0
  /\ sessionId = [c \in Chans |-> None]
  /\ boundTo = [c \in Chans |-> None]
  /\ chClosed = [c \in Chans |-> FALSE]
  /\ hookLog = [c \in Chans |-> <<>>]
  /\ transports = {}
  /\ listening = [o \in Ops |-> FALSE]
  /\ sinkCloses = [o \in Ops |-> 0]
  /\ hookRuns = [o \in Ops |-> 0]
  /\ cur = 1
  /\ other = {}

\* one coordinator instance serves every request
Init ==
  /\ Created
  /\ inst = [o \in Ops |-> 1]

\* An operation enters its handler: operations are numbered in arrival order.
Enter(o, k, r) ==
  /\ o = nstarted + 1
  /\ o \in Ops
  /\ nstarted' = o
  /\ kind' = [kind EXCEPT ![o] = k]
  /\ req' = [req EXCEPT ![o] = r]

\* ====================================================== stateful coordinator
PostBranchInitAlways(sid, method, init, reg) ==
  IF init /\ method = "POST" THEN "create"
  ELSE IF sid # None /\ Registered(reg, sid) THEN "reuse"
  ELSE "invalid"

PostBranchNoInitCheck(sid, method, init, reg) ==
  IF sid # None /\ Registered(reg, sid) THEN "reuse"
  ELSE IF sid = None /\ method = "POST" THEN "create"
  ELSE "invalid"

\* the if / else if / else of postHandler
PostBranch(sid, method, init, reg) ==
  IF sid # None /\ Registered(reg, sid) THEN "reuse"
  ELSE IF sid = None /\ method = "POST" /\ init THEN "create"
  ELSE "invalid"

InvalidSessionCallsAsError(cb, o) ==
  (IF cb THEN << <<"onInvalidSession", o, 0>>, <<"onError", ErrOf(o), None>> >> ELSE <<>>)
    \o << <<"respond", 400, 0>>, <<"next", ErrOf(o), 0>> >>

\* the invalid-session branch of both handlers: the optional callback with
\* the request of operation o, then the 400
InvalidSessionCalls(cb, o) ==
  (IF cb THEN << <<"onInvalidSession", o, 0>> >> ELSE <<>>)
    \o << <<"respond", 400, 0>> >>

\* postHandler up to its first await (or its return)
PostStart(o) ==
  /\ mode = "stateful"
  /\ \E m \in Methods, h \in Keys, i \in BOOLEAN :
       /\ Enter(o, "post", [method |-> m, sid |-> h, init |-> i])
       /\ LET b == PostBranch(h, m, i, transports) IN
          \/ /\ b = "reuse"
             /\ tr' = [tr EXCEPT ![o] = Lookup(transports, h)]
             /\ Delegate(o, Lookup(transports, h),
                         <<"handleRequest", Lookup(transports, h), 1>>, h, Resp500Json)
             /\ UNCHANGED <<srv, made, chanVars>>
          \/ /\ b = "create"
             /\ \/ \* new StreamableHTTPServerTransport(...) throws
                   /\ Caught(o, <<>>, ErrOf(o), h, Resp500Json)
                   /\ UNCHANGED <<tr, srv, made, chanVars>>
                \/ \* serverFactory() throws
                   /\ nchan' = nchan + 1
                   /\ tr' = [tr EXCEPT ![o] = nchan + 1]
                   /\ made' = [made EXCEPT ![o] = nchan + 1]
                   /\ Caught(o, << <<"new", nchan + 1, 0>> >>, ErrOf(o), h, Resp500Json)
                   /\ UNCHANGED <<srv, nsrv, sessionId, boundTo, chClosed, hookLog>>
                \/ \* serverFactory().connect(transport) is called and awaited
                   /\ nchan' = nchan + 1
                   /\ nsrv' = nsrv + 1
                   /\ tr' = [tr EXCEPT ![o] = nchan + 1]
                   /\ made' = [made EXCEPT ![o] = nchan + 1]
                   /\ srv' = [srv EXCEPT ![o] = nsrv + 1]
                   /\ boundTo' = [boundTo EXCEPT ![nchan + 1] = nsrv + 1]
                   /\ trace' = [trace EXCEPT ![o] =
                        << <<"new", nchan + 1, 0>>, <<"serverFactory", nsrv + 1, 0>>,
                           <<"connect", nsrv + 1, nchan + 1>> >>]
                   /\ pc' = [pc EXCEPT ![o] = "binding"]
                   /\ UNCHANGED <<headersSent, out, thrown, sessionId, chClosed, hookLog>>
          \/ /\ b = "invalid"
             /\ trace' = [trace EXCEPT ![o] = InvalidSessionCalls(withCallbacks, o)]
             /\ out' = [out EXCEPT ![o] = <<Resp400Json>>]
             /\ UNCHANGED headersSent
             /\ pc' = [pc EXCEPT ![o] = "done"]
             /\ UNCHANGED <<tr, srv, made, thrown, chanVars>>
  /\ UNCHANGED <<cfgVars, transports, sinkVars>>

PostConnectReturnYields(o) ==
  /\ mode = "stateful"
  /\ pc[o] = "binding"
  /\ pc' = [pc EXCEPT ![o] = "handling"]
  /\ UNCHANGED <<cfgVars, nstarted, kind, req, tr, srv, made, headersSent, out, thrown,
                 trace, chanVars, transports, sinkVars>>

PostConnectReturnCleansUp(o) ==
  /\ mode = "stateful"
  /\ pc[o] = "binding"
  /\ \/ /\ trace' = [trace EXCEPT ![o] = Append(@, <<"handleRequest", tr[o], 1>>)]
        /\ pc' = [pc EXCEPT ![o] = "handling"]
        /\ UNCHANGED <<headersSent, out, thrown>>
     \/ Caught(o, << <<"transport.close", tr[o], 0>>, <<"server.close", srv[o], 0>> >>,
               ErrOf(o), req[o].sid, Resp500Json)
  /\ UNCHANGED <<cfgVars, nstarted, kind, req, tr, srv, made, chanVars, transports, sinkVars>>

\* the promise of serverFactory().connect(transport) settles (postHandler)
PostConnectReturn(o) ==
  /\ mode = "stateful"
  /\ pc[o] = "binding"
  /\ \/ /\ trace' = [trace EXCEPT ![o] = Append(@, <<"handleRequest", tr[o], 1>>)]
        /\ pc' = [pc EXCEPT ![o] = "handling"]
        /\ UNCHANGED <<headersSent, out, thrown>>
     \/ Caught(o, <<>>, ErrOf(o), req[o].sid, Resp500Json)
  /\ UNCHANGED <<cfgVars, nstarted, kind, req, tr, srv, made, chanVars, transports, sinkVars>>

HandleReturnLooksUpAgain(o) ==
  /\ mode = "stateful"
  /\ pc[o] = "handling"
  /\ tr' = [tr EXCEPT ![o] = IF made[o] = None THEN Lookup(transports, req[o].sid) ELSE @]
  /\ \/ /\ pc' = [pc EXCEPT ![o] = "done"]
        /\ UNCHANGED <<headersSent, out, thrown, trace>>
     \/ Caught(o, <<>>, ErrOf(o), req[o].sid,
                 IF kind[o] = "post" THEN Resp500Json ELSE Resp500Text)
  /\ UNCHANGED <<cfgVars, nstarted, kind, req, srv, made, chanVars, transports, sinkVars>>

HandleReturnBestKnownId(o) ==
  /\ mode = "stateful"
  /\ pc[o] = "handling"
  /\ \/ /\ pc' = [pc EXCEPT ![o] = "done"]
        /\ UNCHANGED <<headersSent, out, thrown, trace>>
     \/ Caught(o, <<>>, ErrOf(o),
               IF made[o] # None THEN sessionId[made[o]] ELSE req[o].sid,
               IF kind[o] = "post" THEN Resp500Json ELSE Resp500Text)
  /\ UNCHANGED <<cfgVars, nstarted, kind, req, tr, srv, made, chanVars, transports, sinkVars>>

HandleReturnEvicts(o) ==
  /\ mode = "stateful"
  /\ pc[o] = "handling"
  /\ \/ /\ pc' = [pc EXCEPT ![o] = "done"]
        /\ UNCHANGED <<headersSent, out, thrown, trace, transports>>
     \/ /\ Caught(o, <<>>, ErrOf(o), req[o].sid,
                   IF kind[o] = "post" THEN Resp500Json ELSE Resp500Text)
        /\ transports' = Remove(transports, sessionId[tr[o]])
  /\ UNCHANGED <<cfgVars, nstarted, kind, req, tr, srv, made, chanVars, sinkVars>>

\* the promise of transport.handleRequest(...) settles (post, get, delete)
HandleReturn(o) ==
  /\ mode = "stateful"
  /\ pc[o] = "handling"
  /\ \/ /\ pc' = [pc EXCEPT ![o] = "done"]
        /\ UNCHANGED <<headersSent, out, thrown, trace>>
     \/ Caught(o, <<>>, ErrOf(o), req[o].sid,
                 IF kind[o] = "post" THEN Resp500Json ELSE Resp500Text)
  /\ UNCHANGED <<cfgVars, nstarted, kind, req, tr, srv, made, chanVars, transports, sinkVars>>

SessionStartDeleteRemoves(o) ==
  /\ mode = "stateful"
  /\ \E k \in {"get", "delete"}, h \in Keys :
       /\ Enter(o, k, [method |-> IF k = "get" THEN "GET" ELSE "DELETE",
                       sid |-> h, init |-> FALSE])
       /\ IF h = None \/ ~Registered(transports, h)
            THEN /\ trace' = [trace EXCEPT ![o] = InvalidSessionCalls(withCallbacks, o)]
                 /\ out' = [out EXCEPT ![o] = <<Resp400Text>>]
                 /\ UNCHANGED headersSent
                 /\ pc' = [pc EXCEPT ![o] = "done"]
                 /\ UNCHANGED <<tr, thrown, transports>>
            ELSE /\ tr' = [tr EXCEPT ![o] = Lookup(transports, h)]
                 /\ Delegate(o, Lookup(transports, h),
                             <<"handleRequest", Lookup(transports, h), 0>>, h, Resp500Text)
                 /\ transports' = IF k = "delete" THEN Remove(transports, h) ELSE transports
  /\ UNCHANGED <<cfgVars, srv, made, chanVars, sinkVars>>

\* handleSessionRequest (getHandler and deleteHandler) up to its await
SessionStart(o) ==
  /\ mode = "stateful"
  /\ \E k \in {"get", "delete"}, h \in Keys :
       /\ Enter(o, k, [method |-> IF k = "get" THEN "GET" ELSE "DELETE",
                       sid |-> h, init |-> FALSE])
       /\ IF h = None \/ ~Registered(transports, h)
            THEN /\ trace' = [trace EXCEPT ![o] = InvalidSessionCalls(withCallbacks, o)]
                 /\ out' = [out EXCEPT ![o] = <<Resp400Text>>]
                 /\ UNCHANGED headersSent
                 /\ pc' = [pc EXCEPT ![o] = "done"]
                 /\ UNCHANGED <<tr, thrown>>
            ELSE /\ tr' = [tr EXCEPT ![o] = Lookup(transports, h)]
                 /\ Delegate(o, Lookup(transports, h),
                             <<"handleRequest", Lookup(transports, h), 0>>, h, Resp500Text)
  /\ UNCHANGED <<cfgVars, srv, made, chanVars, transports, sinkVars>>

\* 1 when the registry maps id to channel c, else 0
Seen(reg, id, c) == IF Lookup(reg, id) = c THEN 1 ELSE 0

InitHookReplacesRegistry(reg, id, c, cb) ==
  [reg |-> {<<id, c>>},
   log |-> IF cb THEN << <<"onSessionInitialized", id, 1>> >> ELSE <<>>]

InitHookCallbackFirst(reg, id, c, cb) ==
  [reg |-> Insert(reg, id, c),
   log |-> IF cb THEN << <<"onSessionInitialized", id, Seen(reg, id, c)>> >> ELSE <<>>]

\* body of the onsessioninitialized hook: the registry it leaves and the
\* callback it makes, with what the callback can see in the registry
InitHook(reg, id, c, cb) ==
  [reg |-> Insert(reg, id, c),
   log |-> IF cb
             THEN << <<"onSessionInitialized", id, Seen(Insert(reg, id, c), id, c)>> >>
             ELSE <<>>]

\* onsessioninitialized: while the channel created by o handles o's initialize
\* message it draws an id from options.sessionIdGenerator and reports it.
SessionInitialized(o) ==
  /\ mode = "stateful"
  /\ pc[o] = "handling"
  /\ made[o] # None
  /\ sessionId[made[o]] = None
  /\ ~chClosed[made[o]]
  /\ \E id \in Generated(sessionId) :
       LET c == made[o]
           h == InitHook(transports, id, c, withCallbacks)
       IN /\ sessionId' = [sessionId EXCEPT ![c] = id]
          /\ transports' = h.reg
          /\ hookLog' = [hookLog EXCEPT ![c] = @ \o h.log]
  /\ UNCHANGED <<cfgVars, nstarted, opVars, nchan, nsrv, boundTo, chClosed, sinkVars>>

SessionClosedHookNoDelete(reg, id, c, cb) ==
  [reg |-> reg,
   log |-> IF cb THEN << <<"onSessionClosed", id, Seen(reg, id, c)>> >> ELSE <<>>]

\* body of transport.onclose for a channel whose sessionId is set: the
\* callback (with what it can see in the registry), then the delete
SessionClosedHook(reg, id, c, cb) ==
  [reg |-> Remove(reg, id),
   log |-> (IF cb THEN << <<"onSessionClosed", id, Seen(reg, id, c)>> >> ELSE <<>>)
             \o << <<"delete", id, IF Registered(reg, id) THEN 1 ELSE 0>> >>]

StatefulChannelCloseNoGuard(c) ==
  /\ mode = "stateful"
  /\ c \in 1..nchan
  /\ ~chClosed[c]
  /\ chClosed' = [chClosed EXCEPT ![c] = TRUE]
  /\ LET h == SessionClosedHook(transports, sessionId[c], c, withCallbacks)
     IN /\ hookLog' = [hookLog EXCEPT ![c] = @ \o h.log]
        /\ transports' = h.reg
  /\ UNCHANGED <<cfgVars, nstarted, opVars, nchan, nsrv, sessionId, boundTo, sinkVars>>

\* transport.onclose of a stateful channel
StatefulChannelClose(c) ==
  /\ mode = "stateful"
  /\ c \in 1..nchan
  /\ ~chClosed[c]
  /\ chClosed' = [chClosed EXCEPT ![c] = TRUE]
  /\ IF sessionId[c] # None
       THEN LET h == SessionClosedHook(transports, sessionId[c], c, withCallbacks)
            IN /\ hookLog' = [hookLog EXCEPT ![c] = @ \o h.log]
               /\ transports' = h.reg
       ELSE UNCHANGED <<hookLog, transports>>
  /\ UNCHANGED <<cfgVars, nstarted, opVars, nchan, nsrv, sessionId, boundTo, sinkVars>>

StatefulNext ==
  \/ \E o \in Ops : PostStart(o)
  \/ \E o \in Ops : PostConnectReturn(o)
  \/ \E o \in Ops : HandleReturn(o)
  \/ \E o \in Ops : SessionStart(o)
  \/ \E o \in Ops : SessionInitialized(o)
  \/ \E c \in Chans : StatefulChannelClose(c)

\* ===================================================== stateless coordinator
StatelessCleanupNoGuard(t, s) ==
  << <<"transport.close", t, 0>>, <<"server.close", s, 0>> >>

\* catch block: if (transport) transport.close(); if (server) server.close();
StatelessCleanup(t, s) ==
  (IF t # None THEN << <<"transport.close", t, 0>> >> ELSE <<>>)
    \o (IF s # None THEN << <<"server.close", s, 0>> >> ELSE <<>>)

StatelessHookNoGuard(t, s, cb) ==
  (IF cb THEN << <<"onClose", 0, 0>> >> ELSE <<>>)
    \o << <<"transport.close", t, 0>>, <<"server.close", s, 0>> >>

\* body of the res.on('close') listener, given the current locals
StatelessHook(t, s, cb) ==
  IF t # None /\ s # None
    THEN (IF cb THEN << <<"onClose", 0, 0>> >> ELSE <<>>)
           \o << <<"transport.close", t, 0>>, <<"server.close", s, 0>> >>
    ELSE <<>>

MethodAllowedAlways(m) == TRUE

\* if (req.method !== 'POST') return 405
MethodAllowed(m) == m = "POST"

StatelessStartCachedEngine(o) ==
  /\ mode = "stateless"
  /\ \E m \in Methods :
       /\ Enter(o, "stateless", [method |-> m, sid |-> None, init |-> FALSE])
       /\ IF ~MethodAllowed(m)
            THEN /\ trace' = [trace EXCEPT ![o] = << <<"respond", 405, 0>> >>]
                 /\ out' = [out EXCEPT ![o] = <<Resp405Json>>]
                 /\ UNCHANGED headersSent
                 /\ pc' = [pc EXCEPT ![o] = "done"]
                 /\ UNCHANGED <<tr, srv, made, thrown, nchan, nsrv, boundTo>>
            ELSE \/ \* serverFactory() throws
                    /\ Caught(o, StatelessCleanup(None, None), ErrOf(o), None, Resp500Json)
                    /\ UNCHANGED <<tr, srv, made, nchan, nsrv, boundTo>>
                 \/ \* new StreamableHTTPServerTransport(...) throws
                    /\ nsrv' = 1
                    /\ srv' = [srv EXCEPT ![o] = 1]
                    /\ Caught(o, << <<"serverFactory", 1, 0>> >>
                                   \o StatelessCleanup(None, 1),
                              ErrOf(o), None, Resp500Json)
                    /\ UNCHANGED <<tr, made, nchan, boundTo>>
                 \/ \* server.connect(transport) is called and awaited
                    /\ nsrv' = 1
                    /\ nchan' = nchan + 1
                    /\ srv' = [srv EXCEPT ![o] = 1]
                    /\ tr' = [tr EXCEPT ![o] = nchan + 1]
                    /\ made' = [made EXCEPT ![o] = nchan + 1]
                    /\ boundTo' = [boundTo EXCEPT ![nchan + 1] = 1]
                    /\ trace' = [trace EXCEPT ![o] =
                         << <<"serverFactory", 1, 0>>, <<"new", nchan + 1, 0>>,
                            <<"connect", 1, nchan + 1>> >>]
                    /\ pc' = [pc EXCEPT ![o] = "binding"]
                    /\ UNCHANGED <<headersSent, out, thrown>>
  /\ UNCHANGED <<cfgVars, sessionId, chClosed, hookLog, transports, sinkVars>>

\* statelessHandler up to its first await (or its return)
StatelessStart(o) ==
  /\ mode = "stateless"
  /\ \E m \in Methods :
       /\ Enter(o, "stateless", [method |-> m, sid |-> None, init |-> FALSE])
       /\ IF ~MethodAllowed(m)
            THEN /\ trace' = [trace EXCEPT ![o] = << <<"respond", 405, 0>> >>]
                 /\ out' = [out EXCEPT ![o] = <<Resp405Json>>]
                 /\ UNCHANGED headersSent
                 /\ pc' = [pc EXCEPT ![o] = "done"]
                 /\ UNCHANGED <<tr, srv, made, thrown, nchan, nsrv, boundTo>>
            ELSE \/ \* serverFactory() throws
                    /\ Caught(o, StatelessCleanup(None, None), ErrOf(o), None, Resp500Json)
                    /\ UNCHANGED <<tr, srv, made, nchan, nsrv, boundTo>>
                 \/ \* new StreamableHTTPServerTransport(...) throws
                    /\ nsrv' = nsrv + 1
                    /\ srv' = [srv EXCEPT ![o] = nsrv + 1]
                    /\ Caught(o, << <<"serverFactory", nsrv + 1, 0>> >>
                                   \o StatelessCleanup(None, nsrv + 1),
                              ErrOf(o), None, Resp500Json)
                    /\ UNCHANGED <<tr, made, nchan, boundTo>>
                 \/ \* server.connect(transport) is called and awaited
                    /\ nsrv' = nsrv + 1
                    /\ nchan' = nchan + 1
                    /\ srv' = [srv EXCEPT ![o] = nsrv + 1]
                    /\ tr' = [tr EXCEPT ![o] = nchan + 1]
                    /\ made' = [made EXCEPT ![o] = nchan + 1]
                    /\ boundTo' = [boundTo EXCEPT ![nchan + 1] = nsrv + 1]
                    /\ trace' = [trace EXCEPT ![o] =
                         << <<"serverFactory", nsrv + 1, 0>>, <<"new", nchan + 1, 0>>,
                            <<"connect", nsrv + 1, nchan + 1>> >>]
                    /\ pc' = [pc EXCEPT ![o] = "binding"]
                    /\ UNCHANGED <<headersSent, out, thrown>>
  /\ UNCHANGED <<cfgVars, sessionId, chClosed, hookLog, transports, sinkVars>>

\* the promise of server.connect(transport) settles (statelessHandler)
StatelessConnectReturn(o) ==
  /\ mode = "stateless"
  /\ pc[o] = "binding"
  /\ \/ /\ trace' = [trace EXCEPT ![o] = Append(@, <<"handleRequest", tr[o], 1>>)]
        /\ pc' = [pc EXCEPT ![o] = "handling"]
        /\ UNCHANGED <<headersSent, out, thrown>>
     \/ Caught(o, StatelessCleanup(tr[o], srv[o]), ErrOf(o), None, Resp500Json)
  /\ UNCHANGED <<cfgVars, nstarted, kind, req, tr, srv, made, chanVars, transports, sinkVars>>

StatelessHandleReturnListensFirst(o) ==
  /\ mode = "stateless"
  /\ pc[o] = "handling"
  /\ listening' = [listening EXCEPT ![o] = TRUE]
  /\ \/ /\ trace' = [trace EXCEPT ![o] = Append(@, <<"res.on", 0, 0>>)]
        /\ pc' = [pc EXCEPT ![o] = "done"]
        /\ UNCHANGED <<headersSent, out, thrown>>
     \/ Caught(o, << <<"res.on", 0, 0>> >> \o StatelessCleanup(tr[o], srv[o]),
               ErrOf(o), None, Resp500Json)
  /\ UNCHANGED <<cfgVars, nstarted, kind, req, tr, srv, made, chanVars, transports,
                 sinkCloses, hookRuns>>

\* the promise of transport.handleRequest(...) settles (statelessHandler);
\* on success the handler registers its listener on the response's 'close'
StatelessHandleReturn(o) ==
  /\ mode = "stateless"
  /\ pc[o] = "handling"
  /\ \/ /\ trace' = [trace EXCEPT ![o] = Append(@, <<"res.on", 0, 0>>)]
        /\ listening' = [listening EXCEPT ![o] = TRUE]
        /\ pc' = [pc EXCEPT ![o] = "done"]
        /\ UNCHANGED <<headersSent, out, thrown>>
     \/ /\ Caught(o, StatelessCleanup(tr[o], srv[o]), ErrOf(o), None, Resp500Json)
        /\ UNCHANGED listening
  /\ UNCHANGED <<cfgVars, nstarted, kind, req, tr, srv, made, chanVars, transports,
                 sinkCloses, hookRuns>>

\* ===================================================== streaming coordinator
\* what getHandler does between the construction of channel c and the call
\* of serverFactory: the two hook assignments, the registration, the listener
OpenCalls(c, id) ==
  << <<"new", c, 0>>, <<"onerror=", c, 0>>, <<"onclose=", c, 0>>,
     <<"insert", id, c>>, <<"res.on", 0, 0>> >>

SseOpenBindsFirst(o) ==
  /\ mode = "sse"
  /\ Enter(o, "open", [method |-> "GET", sid |-> None, init |-> FALSE])
  /\ \/ \* new SSEServerTransport('/messages', res) throws
        /\ Caught(o, <<>>, ErrOf(o), None, Resp500Text)
        /\ UNCHANGED <<tr, srv, made, chanVars, transports, listening>>
     \/ \E id \in Generated(sessionId) :
          LET c == nchan + 1 IN
          /\ nchan' = c
          /\ sessionId' = [sessionId EXCEPT ![c] = id]
          /\ tr' = [tr EXCEPT ![o] = c]
          /\ made' = [made EXCEPT ![o] = c]
          /\ UNCHANGED transports
          /\ listening' = [listening EXCEPT ![o] = TRUE]
          /\ \/ \* serverFactory() throws
                /\ Caught(o, << <<"new", c, 0>>, <<"onerror=", c, 0>>, <<"onclose=", c, 0>>, <<"res.on", 0, 0>> >>, ErrOf(o), None, Resp500Text)
                /\ UNCHANGED <<srv, nsrv, boundTo>>
             \/ \* serverFactory().connect(transport) is called and awaited
                /\ nsrv' = nsrv + 1
                /\ srv' = [srv EXCEPT ![o] = nsrv + 1]
                /\ boundTo' = [boundTo EXCEPT ![c] = nsrv + 1]
                /\ trace' = [trace EXCEPT ![o] =
                     << <<"new", c, 0>>, <<"onerror=", c, 0>>, <<"onclose=", c, 0>>, <<"res.on", 0, 0>> >>
                       \o << <<"serverFactory", nsrv + 1, 0>>, <<"connect", nsrv + 1, c>> >>]
                /\ pc' = [pc EXCEPT ![o] = "binding"]
                /\ UNCHANGED <<headersSent, out, thrown>>
          /\ UNCHANGED <<chClosed, hookLog>>
  /\ UNCHANGED <<cfgVars, sinkCloses, hookRuns>>

\* getHandler up to its await
SseOpen(o) ==
  /\ mode = "sse"
  /\ Enter(o, "open", [method |-> "GET", sid |-> None, init |-> FALSE])
  /\ \/ \* new SSEServerTransport('/messages', res) throws
        /\ Caught(o, <<>>, ErrOf(o), None, Resp500Text)
        /\ UNCHANGED <<tr, srv, made, chanVars, transports, listening>>
     \/ \E id \in Generated(sessionId) :
          LET c == nchan + 1 IN
          /\ nchan' = c
          /\ sessionId' = [sessionId EXCEPT ![c] = id]
          /\ tr' = [tr EXCEPT ![o] = c]
          /\ made' = [made EXCEPT ![o] = c]
          /\ transports' = Insert(transports, id, c)
          /\ listening' = [listening EXCEPT ![o] = TRUE]
          /\ \/ \* serverFactory() throws
                /\ Caught(o, OpenCalls(c, id), ErrOf(o), None, Resp500Text)
                /\ UNCHANGED <<srv, nsrv, boundTo>>
             \/ \* serverFactory().connect(transport) is called and awaited
                /\ nsrv' = nsrv + 1
                /\ srv' = [srv EXCEPT ![o] = nsrv + 1]
                /\ boundTo' = [boundTo EXCEPT ![c] = nsrv + 1]
                /\ trace' = [trace EXCEPT ![o] =
                     OpenCalls(c, id)
                       \o << <<"serverFactory", nsrv + 1, 0>>, <<"connect", nsrv + 1, c>> >>]
                /\ pc' = [pc EXCEPT ![o] = "binding"]
                /\ UNCHANGED <<headersSent, out, thrown>>
          /\ UNCHANGED <<chClosed, hookLog>>
  /\ UNCHANGED <<cfgVars, sinkCloses, hookRuns>>

SseConnectReturnUnregisters(o) ==
  /\ mode = "sse"
  /\ pc[o] = "binding"
  /\ \/ /\ pc' = [pc EXCEPT ![o] = "done"]
        /\ UNCHANGED <<headersSent, out, thrown, trace, transports>>
     \/ /\ Caught(o, <<>>, ErrOf(o), None, Resp500Text)
        /\ transports' = Remove(transports, sessionId[made[o]])
  /\ UNCHANGED <<cfgVars, nstarted, kind, req, tr, srv, made, chanVars, sinkVars>>

\* the promise of serverFactory().connect(transport) settles (getHandler)
SseConnectReturn(o) ==
  /\ mode = "sse"
  /\ pc[o] = "binding"
  /\ \/ /\ pc' = [pc EXCEPT ![o] = "done"]
        /\ UNCHANGED <<headersSent, out, thrown, trace>>
     \/ Caught(o, <<>>, ErrOf(o), None, Resp500Text)
  /\ UNCHANGED <<cfgVars, nstarted, kind, req, tr, srv, made, chanVars, transports, sinkVars>>

\* sse postHandler up to its await (or its return)
SseDeliver(o) ==
  /\ mode = "sse"
  /\ \E q \in Keys :
       /\ Enter(o, "deliver", [method |-> "POST", sid |-> q, init |-> FALSE])
       /\ IF Registered(transports, q)
            THEN /\ tr' = [tr EXCEPT ![o] = Lookup(transports, q)]
                 /\ Delegate(o, Lookup(transports, q),
                             <<"handlePostMessage", Lookup(transports, q), 1>>, q, Resp500Text)
            ELSE /\ trace' = [trace EXCEPT ![o] = << <<"respond", 400, 0>> >>]
                 /\ out' = [out EXCEPT ![o] = <<Resp400NoTransport>>]
                 /\ UNCHANGED headersSent
                 /\ pc' = [pc EXCEPT ![o] = "done"]
                 /\ UNCHANGED <<tr, thrown>>
  /\ UNCHANGED <<cfgVars, srv, made, chanVars, transports, sinkVars>>

\* the promise of transport.handlePostMessage(...) settles
SseDeliverReturn(o) ==
  /\ mode = "sse"
  /\ pc[o] = "handling"
  /\ \/ /\ pc' = [pc EXCEPT ![o] = "done"]
        /\ UNCHANGED <<headersSent, out, thrown, trace>>
     \/ Caught(o, <<>>, ErrOf(o), req[o].sid, Resp500Text)
  /\ UNCHANGED <<cfgVars, nstarted, kind, req, tr, srv, made, chanVars, transports, sinkVars>>

\* transport.onclose of a streaming channel
SseChannelClose(c) ==
  /\ mode = "sse"
  /\ c \in 1..nchan
  /\ ~chClosed[c]
  /\ chClosed' = [chClosed EXCEPT ![c] = TRUE]
  /\ hookLog' = [hookLog EXCEPT ![c] = @ \o
       (IF withCallbacks
          THEN << <<"onClose", sessionId[c],
                    Seen(transports, sessionId[c], c)>> >>
          ELSE <<>>)]
  /\ UNCHANGED <<cfgVars, nstarted, opVars, nchan, nsrv, sessionId, boundTo,
                 transports, sinkVars>>

\* ============================================================ output sink
SseSinkHookNoDelete(reg, id, c, cb) ==
  [reg |-> reg,
   log |-> IF cb THEN << <<"onClose", id, Seen(reg, id, c)>> >> ELSE <<>>]

\* body of the res.on("close") listener of getHandler: the callback with the
\* id captured at open time, then the delete keyed by transport.sessionId
SseSinkHook(reg, id, c, cb) ==
  [reg |-> Remove(reg, id),
   log |-> (IF cb THEN << <<"onClose", id, Seen(reg, id, c)>> >> ELSE <<>>)
             \o << <<"delete", id, IF Registered(reg, id) THEN 1 ELSE 0>> >>]

\* A response emits 'close' once; the stateless listener is also driven
\* repeatedly (src/src/__tests__/stateless.test.ts:31-36 and 106-107).
SinkCloseLimit(k) == IF k = "stateless" THEN MaxSinkClose ELSE 1

\* The response of operation o delivers 'close' to the listeners registered
\* on it at that moment (EventEmitter: a listener added later is not called).
SinkClose(o) ==
  /\ kind[o] \in {"stateless", "open"}
  /\ made[o] # None
  /\ sinkCloses[o] < SinkCloseLimit(kind[o])
  /\ sinkCloses' = [sinkCloses EXCEPT ![o] = @ + 1]
  /\ IF ~listening[o]
       THEN UNCHANGED <<tr, srv, trace, hookLog, transports, hookRuns>>
       ELSE /\ hookRuns' = [hookRuns EXCEPT ![o] = @ + 1]
            /\ IF kind[o] = "stateless"
                 THEN /\ trace' = [trace EXCEPT ![o] =
                           @ \o StatelessHook(tr[o], srv[o], withCallbacks)]
                      /\ tr' = [tr EXCEPT ![o] =
                           IF tr[o] # None /\ srv[o] # None THEN None ELSE @]
                      /\ srv' = [srv EXCEPT ![o] =
                           IF tr[o] # None /\ srv[o] # None THEN None ELSE @]
                      /\ UNCHANGED <<hookLog, transports>>
                 ELSE LET c == made[o]
                          h == SseSinkHook(transports, sessionId[c], c, withCallbacks)
                      IN /\ hookLog' = [hookLog EXCEPT ![c] = @ \o h.log]
                         /\ transports' = h.reg
                         /\ UNCHANGED <<tr, srv, trace>>
  /\ UNCHANGED <<cfgVars, nstarted, kind, req, pc, made, headersSent, out, thrown,
                 nchan, nsrv, sessionId, boundTo, chClosed, listening>>

StatelessNext ==
  \/ \E o \in Ops : StatelessStart(o)
  \/ \E o \in Ops : StatelessConnectReturn(o)
  \/ \E o \in Ops : StatelessHandleReturn(o)

SseNext ==
  \/ \E o \in Ops : SseOpen(o)
  \/ \E o \in Ops : SseConnectReturn(o)
  \/ \E o \in Ops : SseDeliver(o)
  \/ \E o \in Ops : SseDeliverReturn(o)
  \/ \E c \in Chans : SseChannelClose(c)

Next ==
  \/ StatefulNext
  \/ StatelessNext
  \/ SseNext
  \/ \E o \in Ops : SinkClose(o)

Spec == Init /\ [][Next]_vars

\* ------------------------------------------------------- two instances
\* the registry of instance i: each call of statefulHandlers / sseHandlers
\* allocates its own `transports` object, which only its closures reference
RegOf(i) == IF i = cur THEN transports ELSE other

\* the instance whose handler constructed channel c
OwnerOf(c) == inst[CHOOSE o \in Ops : made[o] = c]

\* two coordinators of the same kind are mounted, both with the optional
\* callbacks; each request is routed to one of them (the first one to
\* instance 1, a later one to instance 2)
InitPair ==
  /\ Created
  /\ mode \in {"stateful", "sse"}
  /\ withCallbacks
  /\ inst \in {f \in [Ops -> Insts] : f[1] = 1 /\ \E o \in Ops : f[o] = 2}

\* the code that runs in a step is a closure of the running instance: the
\* handler of a request routed to it, or a hook of a channel or of a response
\* that one of its handlers set up
Runs ==
  /\ \A o \in Ops :
       (pc'[o] # pc[o] \/ sinkCloses'[o] # sinkCloses[o]) => inst[o] = cur
  /\ \A c \in Chans :
       (chClosed'[c] # chClosed[c] \/ sessionId'[c] # sessionId[c])
       => \A o \in Ops : made'[o] = c => inst[o] = cur

SwitchSharedRegistry ==
  /\ cur' = 3 - cur
  /\ UNCHANGED <<mode, withCallbacks, inst, other, nstarted, opVars, chanVars,
                 transports, sinkVars>>

\* the event loop turns to a closure of the other instance, whose `transports`
\* is the object that instance allocated
Switch ==
  /\ cur' = 3 - cur
  /\ transports' = other
  /\ other' = transports
  /\ UNCHANGED <<mode, withCallbacks, inst, nstarted, opVars, chanVars, sinkVars>>

PairNext ==
  \/ Next /\ Runs
  \/ Switch

SpecPair == InitPair /\ [][PairNext]_vars

\* ================================================================= claims
\* calls named n in a call sequence
Calls(seq, n) == SelectSeq(seq, LAMBDA ev : ev[1] = n)

\* operation o enters its handler in this step
Enters(o) == pc[o] = "idle" /\ pc'[o] # "idle"

\* C1: in the stateful and the streaming coordinator, at every point of every
\* sequence of operations, the registry holds at most one channel per session
\* identifier.
C1_AtMostOneChannelPerId ==
  \A e1 \in transports : \A e2 \in transports : e1[1] = e2[1] => e1 = e2

\* C1 witness: two live channels were given the same identifier and the
\* registry resolves it to the later one.
C1_Witness ==
  \E c1 \in Chans : \E c2 \in Chans :
    /\ c1 < c2
    /\ sessionId[c1] # None
    /\ sessionId[c1] = sessionId[c2]
    /\ ~chClosed[c1]
    /\ <<sessionId[c2], c2>> \in transports

\* C2: a POST whose mcp-session-id header names a registered session is
\* delegated to the registered channel; it constructs no channel, calls
\* neither the server factory nor connect, and the initialized callback is
\* not invoked again for that channel.
C2_ReuseStep ==
  \A o \in Ops :
    (/\ Enters(o)
     /\ kind'[o] = "post"
     /\ req'[o].sid # None
     /\ Held(transports, req'[o].sid))
    => /\ tr'[o] = Lookup(transports, req'[o].sid)
       /\ trace'[o] = << <<"handleRequest", Lookup(transports, req'[o].sid), 1>> >>
       /\ pc'[o] = "handling"
       /\ made'[o] = None
       /\ srv'[o] = None
       /\ nchan' = nchan
       /\ nsrv' = nsrv
       /\ boundTo' = boundTo
       /\ hookLog' = hookLog
       /\ transports' = transports

C2_ReuseInv ==
  \A o \in Ops :
    (kind[o] = "post" /\ req[o].sid # None /\ tr[o] \in Chans)
    => /\ made[o] = None
       /\ Calls(trace[o], "new") = <<>>
       /\ Calls(trace[o], "serverFactory") = <<>>
       /\ Calls(trace[o], "connect") = <<>>
       /\ Len(Calls(hookLog[tr[o]], "onSessionInitialized")) <= 1

C2_StatefulReuse == [][C2_ReuseStep]_vars /\ []C2_ReuseInv

\* C2 witness: a POST that reused an initialized session has completed.
C2_Witness ==
  \E o \in Ops :
    /\ kind[o] = "post"
    /\ req[o].sid # None
    /\ tr[o] # None
    /\ pc[o] = "done"
    /\ thrown[o] = None
    /\ Len(Calls(hookLog[tr[o]], "onSessionInitialized")) = 1

\* C3: a POST without mcp-session-id header whose body is not an initialize
\* message is answered 400 with the JSON-RPC error -32000 (id null), creates
\* no channel and leaves the registry as it was.
C3_RejectStep ==
  \A o \in Ops :
    (/\ Enters(o)
     /\ kind'[o] = "post"
     /\ req'[o].method = "POST"
     /\ req'[o].sid = None
     /\ ~req'[o].init)
    => /\ out'[o] = << [status |-> 400, kind |-> "jsonrpc", code |-> -32000, id |-> "null",
                        message |-> "Invalid request: session ID required or initialization expected"] >>
       /\ pc'[o] = "done"
       /\ tr'[o] = None
       /\ made'[o] = None
       /\ thrown'[o] = None
       /\ nchan' = nchan
       /\ nsrv' = nsrv
       /\ transports' = transports

C3_StatefulRejection == [][C3_RejectStep]_vars

\* C3 witness: such a POST was rejected while a session was registered.
C3_Witness ==
  \E o \in Ops :
    /\ kind[o] = "post"
    /\ req[o].method = "POST"
    /\ req[o].sid = None
    /\ ~req[o].init
    /\ pc[o] = "done"
    /\ out[o] # <<>>
    /\ out[o][1].status = 400
    /\ transports # {}

\* C4: when a streaming channel is closed both through its own close hook
\* and through the close of the opening operation's output sink, in either
\* order, its registry entry is removed exactly once and the onClose
\* callback is invoked at most once for its id.
C4_CleanupIdempotence ==
  \A o \in Ops :
    (/\ kind[o] = "open"
     /\ made[o] # None
     /\ chClosed[made[o]]
     /\ sinkCloses[o] = 1)
    => /\ Len(SelectSeq(hookLog[made[o]],
                        LAMBDA ev : ev[1] = "delete" /\ ev[3] = 1)) = 1
       /\ Len(Calls(hookLog[made[o]], "onClose")) <= 1

\* C5: concurrent stateless POSTs use only the engine and channel they
\* created themselves, and once an operation's output sink has closed, its
\* channel and its engine have been closed, whenever the sink closed.
C5_StatelessIsolation ==
  /\ \A o1 \in Ops : \A o2 \in Ops :
       (kind[o1] = "stateless" /\ kind[o2] = "stateless" /\ o1 # o2 /\ made[o1] # None)
       => /\ made[o1] # made[o2]
          /\ made[o2] # None => boundTo[made[o1]] # boundTo[made[o2]]
          /\ \A i \in 1..Len(trace[o2]) :
               trace[o2][i][1] \in {"handleRequest", "transport.close"}
               => trace[o2][i][2] # made[o1]
  /\ \A o \in Ops :
       (kind[o] = "stateless" /\ made[o] # None /\ pc[o] = "done" /\ sinkCloses[o] >= 1)
       => /\ Calls(trace[o], "transport.close") # <<>>
          /\ Calls(trace[o], "server.close") # <<>>

\* C6: for a stateless POST whose output sink closes at any moment after the
\* operation started, also while binding or delivery is in progress, the
\* completion hook runs: onClose is invoked and channel and engine are closed.
C6_HookRunsOnAbort ==
  \A o \in Ops :
    (/\ kind[o] = "stateless"
     /\ made[o] # None
     /\ pc[o] = "done"
     /\ thrown[o] = None
     /\ sinkCloses[o] >= 1)
    => /\ hookRuns[o] >= 1
       /\ withCallbacks => Calls(trace[o], "onClose") # <<>>

\* C7: after a successful stateless POST, when the output sink reports close
\* once or several times, onClose, the channel's close and the engine's close
\* are each invoked exactly once, in that order.
C7_HookOrderAndSingleFiring ==
  \A o \in Ops :
    (kind[o] = "stateless" /\ hookRuns[o] >= 1)
    => SelectSeq(trace[o], LAMBDA ev : ev[1] \in {"onClose", "transport.close", "server.close"})
         = (IF withCallbacks THEN << <<"onClose", 0, 0>> >> ELSE <<>>)
             \o << <<"transport.close", made[o], 0>>,
                   <<"server.close", boundTo[made[o]], 0>> >>

\* C7 witness: the listener of a successful stateless POST ran twice, with
\* the onClose callback supplied.
C7_Witness ==
  \E o \in Ops :
    /\ kind[o] = "stateless"
    /\ hookRuns[o] = 2
    /\ withCallbacks
    /\ Len(Calls(trace[o], "onClose")) = 1

\* operation o catches an error in this step
Catches(o) == thrown[o] = None /\ thrown'[o] # None

\* C8: in every coordinator operation, an error caught after output was
\* already written makes the coordinator write no status and no body; the
\* error is still passed to next.
C8_GuardStep ==
  \A o \in Ops :
    (Catches(o) /\ headersSent'[o])
    => /\ out'[o] = out[o]
       /\ Calls(trace'[o], "respond") = Calls(trace[o], "respond")
       /\ trace'[o][Len(trace'[o])] = <<"next", thrown'[o], 0>>

C8_HeadersSentGuard == [][C8_GuardStep]_vars

\* C8 witness: an operation failed after its channel had written output;
\* the coordinator wrote nothing and called next.
C8_Witness ==
  \E o \in Ops :
    /\ thrown[o] # None
    /\ headersSent[o]
    /\ out[o] = <<>>
    /\ Calls(trace[o], "respond") = <<>>
    /\ Calls(trace[o], "next") # <<>>

\* C9: an error thrown while resolving, creating, binding or delegating is
\* caught by the operation, given to the optional onError callback and then
\* passed to next exactly once, whether or not a 500 was written; an
\* operation in which nothing was thrown never calls next.
C9_ErrorPropagation ==
  \A o \in Ops :
    /\ thrown[o] # None
       => /\ pc[o] = "done"
          /\ Calls(trace[o], "next") = << <<"next", thrown[o], 0>> >>
          /\ trace[o][Len(trace[o])] = <<"next", thrown[o], 0>>
          /\ withCallbacks
             => /\ Len(Calls(trace[o], "onError")) = 1
                /\ Calls(trace[o], "onError")[1][2] = thrown[o]
                /\ \E i \in 1..Len(trace[o]) : \E j \in 1..Len(trace[o]) :
                     i < j /\ trace[o][i][1] = "onError" /\ trace[o][j][1] = "next"
          /\ Len(out[o]) = Len(Calls(trace[o], "respond"))
    /\ thrown[o] = None
       => /\ Calls(trace[o], "next") = <<>>
          /\ Calls(trace[o], "onError") = <<>>

\* C9 witness: one operation failed before any output (500 written) and
\* another after output had been sent (500 suppressed); both reached next.
C9_Witness ==
  \E o1 \in Ops : \E o2 \in Ops :
    /\ thrown[o1] # None
    /\ out[o1] # <<>>
    /\ thrown[o2] # None
    /\ out[o2] = <<>>
    /\ withCallbacks
    /\ Calls(trace[o1], "next") # <<>>
    /\ Calls(trace[o2], "next") # <<>>

\* C10: a POST without header and with an initialize body constructs exactly
\* one channel and binds one fresh engine to it; when the channel reports its
\* generated id, it is inserted in the registry under that id before
\* onSessionInitialized is invoked with the id, so the registry then holds
\* the entry of the generated id.
C10_CreateStep ==
  \A o \in Ops :
    (/\ Enters(o)
     /\ kind'[o] = "post"
     /\ req'[o].method = "POST"
     /\ req'[o].sid = None
     /\ req'[o].init)
    => /\ transports' = transports
       /\ nchan' <= nchan + 1
       /\ nsrv' <= nsrv + 1
       /\ thrown'[o] = None
          => /\ nchan' = nchan + 1
             /\ nsrv' = nsrv + 1
             /\ made'[o] = nchan + 1
             /\ tr'[o] = nchan + 1
             /\ boundTo'[nchan + 1] = nsrv + 1
             /\ sessionId'[nchan + 1] = None
             /\ pc'[o] = "binding"
             /\ trace'[o] = << <<"new", nchan + 1, 0>>, <<"serverFactory", nsrv + 1, 0>>,
                               <<"connect", nsrv + 1, nchan + 1>> >>

C10_InitStep ==
  \A c \in Chans :
    (mode = "stateful" /\ sessionId[c] = None /\ sessionId'[c] # None)
    => /\ <<sessionId'[c], c>> \in transports'
       /\ withCallbacks
          => hookLog'[c] = Append(hookLog[c], <<"onSessionInitialized", sessionId'[c], 1>>)

C10_StatefulSessionCreation == [][C10_CreateStep /\ C10_InitStep]_vars

\* C10 witness: an initialize POST completed and its channel is registered
\* under the id it reported.
C10_Witness ==
  \E o \in Ops :
    /\ kind[o] = "post"
    /\ made[o] # None
    /\ pc[o] = "done"
    /\ thrown[o] = None
    /\ withCallbacks
    /\ sessionId[made[o]] # None
    /\ <<sessionId[made[o]], made[o]>> \in transports
    /\ Len(Calls(hookLog[made[o]], "onSessionInitialized")) = 1

\* channel c fires its close hook in this step
Closes(c) == ~chClosed[c] /\ chClosed'[c]

\* C11 (as stated): when the close hook of an identified stateful channel
\* fires, onSessionClosed is invoked with the channel's id and then the
\* registry entry of that id is removed; from then on the id never resolves
\* again, so that every POST, GET or DELETE carrying it is answered 400.
C11_NeverValidAgain ==
  \A c \in Chans :
    (mode = "stateful" /\ chClosed[c] /\ sessionId[c] # None)
    => ~Registered(transports, sessionId[c])

\* C11 (amended): when the close hook of an identified stateful channel
\* fires, onSessionClosed is invoked with the id the channel holds at that
\* time, seeing the registry as it was, and then the entry of that id is
\* removed and no other entry is touched; a POST, GET or DELETE that carries
\* the id of a closed channel while the id is not registered again is
\* answered 400 as an invalid session and is delegated to no channel.
C11_CloseStep ==
  \A c \in Chans :
    (mode = "stateful" /\ Closes(c) /\ sessionId[c] # None)
    => LET id == sessionId[c]
           added == SubSeq(hookLog'[c], Len(hookLog[c]) + 1, Len(hookLog'[c]))
       IN /\ sessionId'[c] = id
          /\ withCallbacks
             => /\ Len(added) = 2
                /\ added[1] = <<"onSessionClosed", id, IF Lookup(transports, id) = c THEN 1 ELSE 0>>
          /\ added # <<>>
          /\ added[Len(added)][1] = "delete"
          /\ added[Len(added)][2] = id
          /\ ~Registered(transports', id)
          /\ \A e \in transports : e[1] # id => e \in transports'
          /\ transports' \subseteq transports

C11_InvalidAfterClose ==
  \A o \in Ops :
    (/\ Enters(o)
     /\ kind'[o] \in {"post", "get", "delete"}
     /\ req'[o].sid # None
     /\ \E c \in Chans : chClosed[c] /\ sessionId[c] = req'[o].sid
     /\ ~Registered(transports, req'[o].sid))
    => /\ Len(out'[o]) = 1
       /\ out'[o][1].status = 400
       /\ out'[o][1] = IF kind'[o] = "post" THEN Resp400Json ELSE Resp400Text
       /\ pc'[o] = "done"
       /\ tr'[o] = None
       /\ made'[o] = None
       /\ transports' = transports

C11_StatefulTeardown == [][C11_CloseStep /\ C11_InvalidAfterClose]_vars

\* C11 witness: an identified channel closed, onSessionClosed ran while the
\* channel was still registered, the entry was deleted, and a later request
\* carrying the id was answered 400.
C11_Witness ==
  \E c \in Chans : \E o \in Ops :
    /\ mode = "stateful"
    /\ withCallbacks
    /\ chClosed[c]
    /\ sessionId[c] # None
    /\ Calls(hookLog[c], "onSessionClosed") = << <<"onSessionClosed", sessionId[c], 1>> >>
    /\ hookLog[c][Len(hookLog[c])] = <<"delete", sessionId[c], 1>>
    /\ kind[o] \in {"get", "delete", "post"}
    /\ req[o].sid = sessionId[c]
    /\ made[o] = None
    /\ pc[o] = "done"
    /\ out[o] # <<>>
    /\ out[o][1].status = 400

\* C12: a GET or DELETE whose mcp-session-id header is missing, or names an
\* id that is not in the registry, invokes the optional onInvalidSession
\* callback, answers 400 with the plain-text body 'Invalid or missing session
\* ID', delegates to no channel and leaves the registry unchanged.
C12_InvalidPollStep ==
  \A o \in Ops :
    (/\ Enters(o)
     /\ kind'[o] \in {"get", "delete"}
     /\ (req'[o].sid = None \/ ~Held(transports, req'[o].sid)))
    => /\ out'[o] = << [status |-> 400, kind |-> "text", code |-> 0, id |-> "",
                        message |-> "Invalid or missing session ID"] >>
       /\ withCallbacks => Calls(trace'[o], "onInvalidSession") = << <<"onInvalidSession", o, 0>> >>
       /\ Calls(trace'[o], "handleRequest") = <<>>
       /\ Calls(trace'[o], "onError") = <<>>
       /\ tr'[o] = None
       /\ pc'[o] = "done"
       /\ transports' = transports

C12_InvalidPoll == [][C12_InvalidPollStep]_vars

\* C13: a stateless operation whose method is not POST is answered at once
\* with status 405 and the structured JSON-RPC error (code -32000, id null)
\* and has no side effect: the server factory is not called, no channel is
\* created, no close hook is registered, and neither onError, onClose nor
\* next is invoked.
C13_StatelessWrongVerb ==
  /\ \A o \in Ops :
       (kind[o] = "stateless" /\ req[o].method # "POST")
       => /\ pc[o] = "done"
          /\ out[o] = << [status |-> 405, kind |-> "jsonrpc", code |-> -32000,
                          id |-> "null", message |-> "Method not allowed"] >>
          /\ trace[o] = << <<"respond", 405, 0>> >>
          /\ tr[o] = None
          /\ srv[o] = None
          /\ made[o] = None
          /\ thrown[o] = None
          /\ ~listening[o]
          /\ hookRuns[o] = 0
  /\ mode = "stateless"
     => /\ nchan = Cardinality({o \in Ops : req[o].method = "POST" /\ made[o] # None})
        /\ nsrv = Cardinality({o \in Ops : req[o].method = "POST"
                                           /\ Calls(trace[o], "serverFactory") # <<>>})

\* C13 witness: a GET was answered 405 after a POST had created its channel
\* and engine, and the counts of channels and engines are those of the POST.
C13_Witness ==
  \E o1 \in Ops : \E o2 \in Ops :
    /\ kind[o1] = "stateless"
    /\ req[o1].method = "POST"
    /\ made[o1] # None
    /\ kind[o2] = "stateless"
    /\ req[o2].method = "GET"
    /\ out[o2] # <<>>
    /\ out[o2][1].status = 405
    /\ nchan = 1
    /\ nsrv = 1

\* the last n elements of a sequence
Suffix(seq, n) == SubSeq(seq, Len(seq) - n + 1, Len(seq))

\* C14: when engine creation, channel creation, engine binding or message
\* delivery throws in a stateless POST, the coordinator closes whichever of
\* channel and engine already exist, skipping any that is unset, then invokes
\* the optional onError with the error, then writes the structured 500 (code
\* -32603) only if headers were not sent, then forwards the error to next.
C14_StatelessFailure ==
  \A o \in Ops :
    (kind[o] = "stateless" /\ thrown[o] # None)
    => LET created == Calls(trace[o], "new") # <<>>
           produced == Calls(trace[o], "serverFactory") # <<>>
           expected ==
             (IF created THEN << <<"transport.close", made[o], 0>> >> ELSE <<>>)
               \o (IF produced THEN << <<"server.close", srv[o], 0>> >> ELSE <<>>)
               \o (IF withCallbacks THEN << <<"onError", thrown[o], None>> >> ELSE <<>>)
               \o (IF headersSent[o] THEN <<>> ELSE << <<"respond", 500, 0>> >>)
               \o << <<"next", thrown[o], 0>> >>
       IN /\ pc[o] = "done"
          /\ Len(trace[o]) >= Len(expected)
          /\ Suffix(trace[o], Len(expected)) = expected
          /\ \A i \in 1..(Len(trace[o]) - Len(expected)) :
               trace[o][i][1] \in {"serverFactory", "new", "connect", "handleRequest"}
          /\ \A i \in 1..Len(trace[o]) : trace[o][i][1] \in {"transport.close", "server.close"}
                                         => trace[o][i][2] # None
          /\ produced => srv[o] # None
          /\ created => made[o] # None /\ produced
          /\ out[o] = IF headersSent[o]
                        THEN <<>>
                        ELSE << [status |-> 500, kind |-> "jsonrpc", code |-> -32603,
                                 id |-> "null", message |-> "Internal server error"] >>
          /\ ~listening[o]

\* C14 witness: one POST failed when only its engine existed (the channel
\* constructor threw) and wrote the 500; another failed in delivery after
\* output had been sent, with channel and engine both closed.
C14_Witness ==
  \E o1 \in Ops : \E o2 \in Ops :
    /\ withCallbacks
    /\ kind[o1] = "stateless"
    /\ thrown[o1] # None
    /\ srv[o1] # None
    /\ made[o1] = None
    /\ ~headersSent[o1]
    /\ trace[o1] = << <<"serverFactory", srv[o1], 0>>, <<"server.close", srv[o1], 0>>,
                      <<"onError", thrown[o1], None>>, <<"respond", 500, 0>>,
                      <<"next", thrown[o1], 0>> >>
    /\ kind[o2] = "stateless"
    /\ thrown[o2] # None
    /\ headersSent[o2]
    /\ Calls(trace[o2], "handleRequest") # <<>>
    /\ Calls(trace[o2], "transport.close") # <<>>
    /\ Calls(trace[o2], "server.close") # <<>>
    /\ out[o2] = <<>>

\* C15: a deliver (POST) whose sessionId query parameter does not resolve in
\* the registry is answered 400 with the plain text 'No transport found for
\* sessionId' and does nothing else: no channel is called, the registry is
\* unchanged, and neither onError nor next is invoked.
C15_UnknownDeliverStep ==
  \A o \in Ops :
    (/\ Enters(o)
     /\ kind'[o] = "deliver"
     /\ ~Held(transports, req'[o].sid))
    => /\ out'[o] = << [status |-> 400, kind |-> "text", code |-> 0, id |-> "",
                        message |-> "No transport found for sessionId"] >>
       /\ trace'[o] = << <<"respond", 400, 0>> >>
       /\ thrown'[o] = None
       /\ tr'[o] = None
       /\ pc'[o] = "done"
       /\ transports' = transports

C15_UnknownDeliver == [][C15_UnknownDeliverStep]_vars

\* C16: after an open has registered a channel under id S and while S is
\* still registered, a deliver with sessionId=S hands the body to that same
\* channel's message-delivery entrypoint exactly once; if that delivery
\* throws, onError is invoked with the error and S, 500 'Internal server
\* error' is written if nothing was sent yet, and the error is forwarded to
\* next.
C16_DeliverStep ==
  \A o \in Ops :
    (/\ Enters(o)
     /\ kind'[o] = "deliver"
     /\ Held(transports, req'[o].sid))
    => \E c \in Chans :
         /\ <<req'[o].sid, c>> \in transports
         /\ \E p \in Ops : kind[p] = "open" /\ made[p] = c
         /\ sessionId[c] = req'[o].sid
         /\ tr'[o] = c
         /\ trace'[o] = << <<"handlePostMessage", c, 1>> >>
         /\ pc'[o] = "handling"
         /\ out'[o] = <<>>
         /\ transports' = transports

C16_DeliverInv ==
  \A o \in Ops :
    (kind[o] = "deliver" /\ tr[o] \in Chans)
    => /\ Calls(trace[o], "handlePostMessage") = << <<"handlePostMessage", tr[o], 1>> >>
       /\ thrown[o] = None => trace[o] = << <<"handlePostMessage", tr[o], 1>> >> /\ out[o] = <<>>
       /\ thrown[o] # None
          => /\ trace[o] = << <<"handlePostMessage", tr[o], 1>> >>
                  \o (IF withCallbacks THEN << <<"onError", thrown[o], req[o].sid>> >> ELSE <<>>)
                  \o (IF headersSent[o] THEN <<>> ELSE << <<"respond", 500, 0>> >>)
                  \o << <<"next", thrown[o], 0>> >>
             /\ out[o] = IF headersSent[o]
                           THEN <<>>
                           ELSE << [status |-> 500, kind |-> "text", code |-> 0, id |-> "",
                                    message |-> "Internal server error"] >>

C16_RegisteredDeliver == [][C16_DeliverStep]_vars /\ []C16_DeliverInv

\* C16 witness: a deliver to the channel an open had registered failed before
\* any output; onError got the error and the session id, and the 500 was
\* written.
C16_Witness ==
  \E o \in Ops : \E p \in Ops :
    /\ withCallbacks
    /\ kind[p] = "open"
    /\ kind[o] = "deliver"
    /\ tr[o] = made[p]
    /\ made[p] # None
    /\ req[o].sid = sessionId[made[p]]
    /\ thrown[o] # None
    /\ ~headersSent[o]
    /\ Calls(trace[o], "onError") = << <<"onError", thrown[o], req[o].sid>> >>
    /\ out[o] # <<>>
    /\ out[o][1].status = 500

\* C17: when the close hook of a streaming channel fires, the optional close
\* callback is invoked with the channel's id and then the registry entry for
\* that id is removed, so that after the channel's own close, without any
\* sink-close event, a deliver with that id is answered 400.
C17_CloseStep ==
  \A c \in Chans :
    (mode = "sse" /\ Closes(c))
    => /\ withCallbacks
          => /\ hookLog'[c] # <<>>
             /\ Calls(hookLog'[c], "onClose") = Append(Calls(hookLog[c], "onClose"),
                                                       <<"onClose", sessionId[c], 1>>)
       /\ ~Held(transports', sessionId[c])

C17_DeliverAfterClose ==
  \A o \in Ops :
    (/\ Enters(o)
     /\ kind'[o] = "deliver"
     /\ \E p \in Ops : /\ kind[p] = "open"
                       /\ made[p] # None
                       /\ sessionId[made[p]] = req'[o].sid
                       /\ <<req'[o].sid, made[p]>> \in transports
                       /\ chClosed[made[p]]
                       /\ sinkCloses[p] = 0)
    => /\ out'[o] # <<>>
       /\ out'[o][1].status = 400
       /\ tr'[o] = None

C17_StreamingCloseHook == [][C17_CloseStep /\ C17_DeliverAfterClose]_vars

\* the output sink of operation o delivers a close event in this step
SinkCloses(o) == sinkCloses'[o] = sinkCloses[o] + 1

\* C18 (as stated): when the output sink of an open operation closes, the
\* close callback is invoked with the channel's id and the registry entry of
\* that channel is removed; from then on the id never resolves again, so
\* that every later deliver with that id is answered 400.
C18_NeverResolvesAgain ==
  \A p \in Ops :
    (kind[p] = "open" /\ made[p] # None /\ sinkCloses[p] >= 1)
    => ~Registered(transports, sessionId[made[p]])

\* C18 (amended): when the output sink of an open operation closes, the close
\* callback is invoked with the channel's id and the registry entry under
\* that id is removed, also when the channel's own close hook has not fired;
\* a deliver that carries the id of a channel whose sink has closed, while no
\* later open has registered the id again, is answered 400.
C18_SinkCloseStep ==
  \A p \in Ops :
    (kind[p] = "open" /\ made[p] # None /\ SinkCloses(p))
    => LET c == made[p]
           id == sessionId[c]
       IN /\ withCallbacks
             => Calls(hookLog'[c], "onClose")
                  = Append(Calls(hookLog[c], "onClose"),
                           <<"onClose", id, IF Lookup(transports, id) = c THEN 1 ELSE 0>>)
          /\ hookLog'[c] # <<>>
          /\ hookLog'[c][Len(hookLog'[c])][1] = "delete"
          /\ hookLog'[c][Len(hookLog'[c])][2] = id
          /\ ~Held(transports', id)
          /\ <<id, c>> \notin transports'
          /\ \A e \in transports : e[1] # id => e \in transports'
          /\ transports' \subseteq transports

C18_DeliverAfterSinkClose ==
  \A o \in Ops :
    (/\ Enters(o)
     /\ kind'[o] = "deliver"
     /\ \E p \in Ops : /\ kind[p] = "open"
                       /\ made[p] # None
                       /\ sinkCloses[p] >= 1
                       /\ sessionId[made[p]] = req'[o].sid
     /\ ~Held(transports, req'[o].sid))
    => /\ out'[o] = <<Resp400NoTransport>>
       /\ out'[o][1].status = 400
       /\ tr'[o] = None
       /\ pc'[o] = "done"

C18_SinkCloseCleanup == [][C18_SinkCloseStep /\ C18_DeliverAfterSinkClose]_vars

\* C18 witness: the sink of an open closed while the channel's own close hook
\* had not fired; onClose ran, the entry was deleted, and a later deliver with
\* the id was answered 400.
C18_Witness ==
  \E p \in Ops : \E o \in Ops :
    /\ withCallbacks
    /\ kind[p] = "open"
    /\ made[p] # None
    /\ ~chClosed[made[p]]
    /\ sinkCloses[p] = 1
    /\ hookLog[made[p]] = << <<"onClose", sessionId[made[p]], 1>>,
                             <<"delete", sessionId[made[p]], 1>> >>
    /\ kind[o] = "deliver"
    /\ req[o].sid = sessionId[made[p]]
    /\ out[o] # <<>>
    /\ out[o][1].status = 400

\* C19: when any step of the open sequence throws (channel construction,
\* hook attachment, registration, engine creation or binding), onError is
\* invoked with the error and an undefined session id, 500 'Internal server
\* error' is written if nothing was sent yet, and the error is forwarded to
\* next.
C19_StreamingOpenFailure ==
  \A o \in Ops :
    (kind[o] = "open" /\ thrown[o] # None)
    => LET expected ==
             (IF withCallbacks THEN << <<"onError", thrown[o], None>> >> ELSE <<>>)
               \o (IF headersSent[o] THEN <<>> ELSE << <<"respond", 500, 0>> >>)
               \o << <<"next", thrown[o], 0>> >>
       IN /\ pc[o] = "done"
          /\ Len(trace[o]) >= Len(expected)
          /\ Suffix(trace[o], Len(expected)) = expected
          /\ \A i \in 1..(Len(trace[o]) - Len(expected)) :
               trace[o][i][1] \in {"new", "onerror=", "onclose=", "insert", "res.on",
                                    "serverFactory", "connect"}
          /\ out[o] = IF headersSent[o]
                        THEN <<>>
                        ELSE << [status |-> 500, kind |-> "text", code |-> 0, id |-> "",
                                 message |-> "Internal server error"] >>

\* C19 witness: one open failed in the channel constructor and wrote the
\* 500; another failed in engine binding, after its channel had been
\* registered and output had been sent; onError got an undefined id in both.
C19_Witness ==
  \E o1 \in Ops : \E o2 \in Ops :
    /\ withCallbacks
    /\ kind[o1] = "open"
    /\ thrown[o1] # None
    /\ made[o1] = None
    /\ trace[o1] = << <<"onError", thrown[o1], None>>, <<"respond", 500, 0>>,
                      <<"next", thrown[o1], 0>> >>
    /\ kind[o2] = "open"
    /\ thrown[o2] # None
    /\ made[o2] # None
    /\ sessionId[made[o2]] # None
    /\ Calls(trace[o2], "connect") # <<>>
    /\ headersSent[o2]
    /\ Calls(trace[o2], "onError") = << <<"onError", thrown[o2], None>> >>
    /\ out[o2] = <<>>

\* C20: in every reachable execution, an identifier is removed from a
\* registry exactly once per registration, and every removal is triggered by
\* the close notification of the channel that the identifier maps to at that
\* moment (its close hook, or the close of the output sink it writes to),
\* never by another channel or operation.
C20_RemovalStep ==
  \A e \in transports :
    ~Held(transports', e[1])
    => /\ \/ Closes(e[2])
          \/ \E p \in Ops : kind[p] = "open" /\ made[p] = e[2] /\ SinkCloses(p)
       /\ \A p \in Ops : ~Enters(p)

C20_RemovalDiscipline == [][C20_RemovalStep]_vars

\* the delegate calls (handleRequest, handlePostMessage) in a call sequence
Delegations(seq) ==
  SelectSeq(seq, LAMBDA ev : ev[1] \in {"handleRequest", "handlePostMessage"})

\* operation o found its channel by a registry lookup
LookedUp(o) == tr[o] \in Chans /\ made[o] = None

\* C21 (as stated): lookup and delegate are not atomic as a pair: the step in
\* which the registry lookup of an operation B finds the channel ends before
\* B's delegate call to that channel is made, so that a close triggered by
\* another operation A can take effect in between.
C21_LookupStep ==
  \A o \in Ops :
    (Enters(o) /\ tr'[o] \in Chans /\ made'[o] = None)
    => Delegations(trace'[o]) = <<>>

C21_LookupDelegateHazard == [][C21_LookupStep]_vars

\* C21 (amended): the registry lookup of an operation and its delegate call
\* to the channel found are one synchronous step, so no close can take effect
\* between them: whenever an operation holds a channel it found by lookup, its
\* delegate call to exactly that channel has been made, exactly once.  A close
\* of that channel can take effect only afterwards, while the delegated
\* delivery is pending.
C21_LookupDelegateAtomic ==
  \A o \in Ops :
    LookedUp(o)
    => /\ Len(Delegations(trace[o])) = 1
       /\ trace[o][1] = Delegations(trace[o])[1]
       /\ trace[o][1][2] = tr[o]
       /\ pc[o] \in {"handling", "done"}

\* C21 witness: while B's delegated delivery to the channel it looked up is
\* pending, the channel was closed and its entry removed.
C21_Witness ==
  \E o \in Ops :
    /\ LookedUp(o)
    /\ pc[o] = "handling"
    /\ chClosed[tr[o]]
    /\ ~Held(transports, req[o].sid)
    /\ Len(Delegations(trace[o])) = 1

\* operation o is resumed after a suspension in this step
Resumes(o) == pc[o] \in {"binding", "handling"} /\ pc'[o] # pc[o]

\* C22: every registry read, insert and removal is a single synchronous step,
\* and an operation is suspended only while waiting for engine binding at
\* channel creation and while waiting for the channel to finish a delegated
\* delivery; no registry read-check-then-write of one operation spans a
\* suspension point.
C22_SuspendedInv ==
  \A o \in Ops :
    /\ pc[o] \in {"idle", "binding", "handling", "done"}
    /\ pc[o] = "binding"
       => /\ made[o] # None
          /\ tr[o] = made[o]
          /\ trace[o][Len(trace[o])] = <<"connect", srv[o], made[o]>>
    /\ pc[o] = "handling"
       => /\ tr[o] \in Chans
          /\ trace[o] # <<>>
          /\ trace[o][Len(trace[o])][1] \in {"handleRequest", "handlePostMessage"}
          /\ trace[o][Len(trace[o])][2] = tr[o]

C22_RegistryStep ==
  /\ transports' # transports
     => \E id \in Ids :
          /\ \A e \in transports \cup transports' :
               e[1] # id => (e \in transports <=> e \in transports')
          /\ Cardinality({e \in transports' : e[1] = id}) <= 1
  /\ \A o \in Ops :
       /\ (Enters(o) /\ kind'[o] # "open") => transports' = transports
       /\ (Enters(o) /\ kind'[o] = "open" /\ transports' # transports)
          => transports' = Insert(transports, sessionId'[made'[o]], made'[o])
       /\ Resumes(o) => transports' = transports

C22_SuspensionPoints == [][C22_RegistryStep]_vars /\ []C22_SuspendedInv

\* C22 witness: one initialize is suspended in engine binding while another
\* is suspended in delivery, its channel having been registered meanwhile.
C22_Witness ==
  \E o1 \in Ops : \E o2 \in Ops :
    /\ pc[o1] = "binding"
    /\ pc[o2] = "handling"
    /\ made[o2] # None
    /\ sessionId[made[o2]] # None
    /\ <<sessionId[made[o2]], made[o2]>> \in transports

\* this step is an operation or a close event that concerns session id S
Concerns(S) ==
  \/ \E o \in Ops : Enters(o) /\ req'[o].sid = S
  \/ \E o \in Ops : Catches(o) /\ (req'[o].sid = S
                                    \/ (made'[o] # None /\ sessionId'[made'[o]] = S))
  \/ \E c \in Chans : Closes(c) /\ sessionId[c] = S
  \/ \E p \in Ops : kind[p] = "open" /\ made[p] # None /\ SinkCloses(p)
                    /\ sessionId[made[p]] = S
  \/ \E c \in Chans : sessionId[c] = None /\ sessionId'[c] = S

\* C23: an operation or close event that concerns session id S (continue,
\* poll, terminate, deliver, channel close, sink close, error handling, and
\* the registration of S itself) leaves the registry entries of every other
\* id T unchanged.
C23_FrameStep ==
  /\ \A S \in Ids :
       Concerns(S)
       => \A e \in transports \cup transports' :
            e[1] # S => (e \in transports /\ e \in transports')
  /\ transports' # transports => \E S \in Ids : Concerns(S)

C23_SessionIndependence == [][C23_FrameStep]_vars

\* C23 witness: two sessions with distinct ids were registered; one of them
\* was closed and removed, and the other is still registered.
C23_Witness ==
  \E c1 \in Chans : \E c2 \in Chans :
    /\ sessionId[c1] # None
    /\ sessionId[c2] # None
    /\ sessionId[c1] # sessionId[c2]
    /\ hookLog[c1] # <<>>
    /\ hookLog[c1][Len(hookLog[c1])] = <<"delete", sessionId[c1], 1>>
    /\ ~Held(transports, sessionId[c1])
    /\ <<sessionId[c2], c2>> \in transports

\* operation o is a stateful initialize that constructed its channel
Initializes(o) == kind[o] = "post" /\ made[o] # None

\* C24: two stateful initialize operations that overlap each create their own
\* channel and engine; when the generator returns distinct ids, both channels
\* are registered under their own id (until their own close hook fires) and
\* neither operation observes or replaces the other's entry.
C24_ConcurrentInitializations ==
  \A o1 \in Ops : \A o2 \in Ops :
    (o1 # o2 /\ Initializes(o1) /\ Initializes(o2))
    => /\ made[o1] # made[o2]
       /\ tr[o1] = made[o1]
       /\ \A i \in 1..Len(trace[o1]) :
            trace[o1][i][1] \in {"new", "handleRequest"} => trace[o1][i][2] = made[o1]
       /\ (srv[o1] # None /\ srv[o2] # None)
          => /\ srv[o1] # srv[o2]
             /\ boundTo[made[o1]] = srv[o1]
             /\ boundTo[made[o2]] = srv[o2]
       /\ (/\ sessionId[made[o1]] # None
           /\ sessionId[made[o2]] # None
           /\ \A c \in Chans : c # made[o1] => sessionId[c] # sessionId[made[o1]])
          => /\ ~chClosed[made[o1]] => <<sessionId[made[o1]], made[o1]>> \in transports
             /\ \A e \in transports : e[1] = sessionId[made[o1]] => e[2] = made[o1]
             /\ Len(Calls(hookLog[made[o1]], "onSessionInitialized")) <= 1

\* C24 witness: two initializes are suspended in delivery at the same time,
\* and both channels are registered under distinct ids.
C24_Witness ==
  \E o1 \in Ops : \E o2 \in Ops :
    /\ o1 # o2
    /\ Initializes(o1)
    /\ Initializes(o2)
    /\ pc[o1] = "handling"
    /\ pc[o2] = "handling"
    /\ sessionId[made[o1]] # None
    /\ sessionId[made[o2]] # None
    /\ sessionId[made[o1]] # sessionId[made[o2]]
    /\ transports = {<<sessionId[made[o1]], made[o1]>>, <<sessionId[made[o2]], made[o2]>>}

\* channel c is registered under its id in this step
Registers(c) == sessionId[c] = None /\ sessionId'[c] # None

\* C25: when the id given to a channel on its registration is already
\* registered, the insertion silently replaces the existing entry: no error
\* is raised by it, no close hook of the replaced channel is triggered, and
\* the id then resolves to the newer channel only; an entry is inserted only
\* by the registration of its own channel, so the replaced one never returns.
C25_CollisionStep ==
  /\ \A c \in Chans :
       (Registers(c) /\ Held(transports, sessionId'[c]))
       => LET id == sessionId'[c]
              old == Lookup(transports, id)
          IN /\ old \in Chans
             /\ old # c
             /\ transports' = (transports \ {<<id, old>>}) \cup {<<id, c>>}
             /\ Lookup(transports', id) = c
             /\ chClosed' = chClosed
             /\ hookLog'[old] = hookLog[old]
             /\ sessionId'[old] = id
             /\ mode = "stateful" => thrown' = thrown /\ out' = out /\ pc' = pc
             /\ mode = "sse"
                => \E o \in Ops : /\ Enters(o)
                                  /\ made'[o] = c
                                  /\ Calls(trace'[o], "res.on") # <<>>
  /\ \A e \in transports' : e \notin transports => Registers(e[2])

C25_IdentifierCollision == [][C25_CollisionStep]_vars

\* C25 witness: two open channels carry the same id, no operation has failed
\* and no hook of either channel has closed or deleted anything; the registry
\* holds one entry for the id.
C25_Witness ==
  \E c1 \in Chans : \E c2 \in Chans :
    /\ c1 # c2
    /\ sessionId[c1] # None
    /\ sessionId[c1] = sessionId[c2]
    /\ ~chClosed[c1]
    /\ ~chClosed[c2]
    /\ Calls(hookLog[c1], "delete") = <<>>
    /\ Calls(hookLog[c2], "delete") = <<>>
    /\ \A o \in Ops : thrown[o] = None
    /\ transports \in {{<<sessionId[c1], c1>>}, {<<sessionId[c1], c2>>}}

\* C26 (as stated): a registered channel stays in its registry across any
\* number and interleaving of successful or failed operations; the only
\* events that remove an entry are the channel's close hook (stateful) and
\* the close of the output sink of the channel's open (streaming).
C26_OwnCloseStep ==
  \A e \in transports :
    e \notin transports'
    => \/ mode = "stateful" /\ Closes(e[2])
       \/ /\ mode = "sse"
          /\ \E p \in Ops : kind[p] = "open" /\ made[p] = e[2] /\ SinkCloses(p)

C26_OnlyOwnCloseRemoves == [][C26_OwnCloseStep]_vars

\* C26 (amended): an entry leaves the registry only when a stateful channel
\* carrying its id fires its close hook, when the output sink of a streaming
\* open whose channel carries its id closes, or when the registration of
\* another channel under the same id replaces it; there is no timeout, and
\* neither a completed nor a failed operation removes an entry otherwise.
C26_RemovalStep ==
  /\ \A e \in transports :
       e \notin transports'
       => \/ /\ mode = "stateful"
             /\ \E c \in Chans : Closes(c) /\ sessionId[c] = e[1]
          \/ /\ mode = "sse"
             /\ \E p \in Ops : /\ kind[p] = "open"
                               /\ made[p] # None
                               /\ SinkCloses(p)
                               /\ sessionId[made[p]] = e[1]
          \/ \E c \in Chans : /\ Registers(c)
                              /\ sessionId'[c] = e[1]
                              /\ <<e[1], c>> \in transports'
  /\ \A o \in Ops :
       ((Catches(o) /\ ~Enters(o)) \/ Resumes(o) \/ (Enters(o) /\ kind'[o] # "open"))
       => transports' = transports

C26_NoReclamation == [][C26_RemovalStep]_vars

\* C26 witness: the initialize that registered a channel failed afterwards,
\* a later operation on the session completed, and the channel, which has not
\* closed, is still registered.
C26_Witness ==
  \E o1 \in Ops : \E o2 \in Ops :
    /\ Initializes(o1)
    /\ thrown[o1] # None
    /\ sessionId[made[o1]] # None
    /\ ~chClosed[made[o1]]
    /\ LookedUp(o2)
    /\ tr[o2] = made[o1]
    /\ pc[o2] = "done"
    /\ <<sessionId[made[o1]], made[o1]>> \in transports

\* operation o took the invalid-session path of a stateful handler
TookInvalidPath(o) ==
  /\ kind[o] \in {"post", "get", "delete"}
  /\ \E i \in 1..Len(trace[o]) : trace[o][i] = <<"respond", 400, 0>>

\* C27: whenever a stateful POST, GET or DELETE takes the invalid-session
\* path, onInvalidSession is invoked exactly once with the request, the
\* response status is 400, and in that operation onError is not invoked, no
\* 500 is written and next is not called; onInvalidSession is never invoked
\* in an operation that resolved or created a channel.
C27_InvalidIsNotAnError ==
  \A o \in Ops :
    /\ TookInvalidPath(o)
       => /\ withCallbacks
             => Calls(trace[o], "onInvalidSession") = << <<"onInvalidSession", o, 0>> >>
          /\ Len(out[o]) = 1
          /\ out[o][1].status = 400
          /\ Calls(trace[o], "respond") = << <<"respond", 400, 0>> >>
          /\ Calls(trace[o], "onError") = <<>>
          /\ Calls(trace[o], "next") = <<>>
          /\ thrown[o] = None
          /\ pc[o] = "done"
    /\ Calls(trace[o], "onInvalidSession") # <<>>
       => /\ TookInvalidPath(o)
          /\ tr[o] = None
          /\ made[o] = None
          /\ Delegations(trace[o]) = <<>>
          /\ Calls(trace[o], "new") = <<>>
    /\ (kind[o] \in {"post", "get", "delete"} /\ pc[o] = "done" /\ tr[o] = None
        /\ thrown[o] = None)
       => TookInvalidPath(o)

\* C27 witness: with the callback supplied, a POST and a GET or DELETE both
\* took the invalid-session path.
C27_Witness ==
  \E o1 \in Ops : \E o2 \in Ops :
    /\ withCallbacks
    /\ kind[o1] = "post"
    /\ kind[o2] \in {"get", "delete"}
    /\ TookInvalidPath(o1)
    /\ TookInvalidPath(o2)
    /\ Calls(trace[o1], "onInvalidSession") = << <<"onInvalidSession", o1, 0>> >>
    /\ Calls(trace[o2], "onInvalidSession") = << <<"onInvalidSession", o2, 0>> >>

\* C28: a GET or DELETE whose mcp-session-id header resolves in the registry
\* is delegated, without a body, to exactly the registered channel, and the
\* coordinator itself neither removes the entry nor writes a response; GET
\* and DELETE have the same coordinator-level outcome for every registry
\* state and header value: the outcome below does not depend on the verb.
C28_SessionStep ==
  \A o \in Ops :
    (Enters(o) /\ kind'[o] \in {"get", "delete"})
    => LET h == req'[o].sid IN
       /\ transports' = transports
       /\ hookLog' = hookLog
       /\ chClosed' = chClosed
       /\ made'[o] = None
       /\ Held(transports, h)
          => /\ tr'[o] = Lookup(transports, h)
             /\ <<h, tr'[o]>> \in transports'
             /\ trace'[o] = << <<"handleRequest", tr'[o], 0>> >>
             /\ out'[o] = <<>>
             /\ thrown'[o] = None
             /\ pc'[o] = "handling"
       /\ (~Held(transports, h) /\ h # ProtoKey)
          => /\ tr'[o] = None
             /\ trace'[o] = (IF withCallbacks THEN << <<"onInvalidSession", o, 0>> >> ELSE <<>>)
                              \o << <<"respond", 400, 0>> >>
             /\ out'[o] = <<Resp400Text>>
             /\ pc'[o] = "done"
       /\ (~Held(transports, h) /\ h = ProtoKey)
          => /\ thrown'[o] # None
             /\ Delegations(trace'[o]) = <<>>
             /\ pc'[o] = "done"

C28_SessionInv ==
  \A o \in Ops :
    (kind[o] \in {"get", "delete"} /\ tr[o] \in Chans)
    => /\ Delegations(trace[o]) = << <<"handleRequest", tr[o], 0>> >>
       /\ thrown[o] = None => out[o] = <<>> /\ Calls(trace[o], "respond") = <<>>

C28_PollAndTerminate == [][C28_SessionStep]_vars /\ []C28_SessionInv

\* C28 witness: a DELETE was delegated to the registered channel and has
\* completed; the coordinator wrote nothing and the entry is still there.
C28_Witness ==
  \E o \in Ops :
    /\ kind[o] = "delete"
    /\ tr[o] \in Chans
    /\ pc[o] = "done"
    /\ thrown[o] = None
    /\ out[o] = <<>>
    /\ trace[o] = << <<"handleRequest", tr[o], 0>> >>
    /\ <<req[o].sid, tr[o]>> \in transports

\* C29: when a stateful operation fails, onError receives the error together
\* with the value of the request's mcp-session-id header; for a failing
\* initialize (no header) it receives undefined, also when a session id had
\* already been generated and registered during that operation.
C29_ErrorCallbackSessionId ==
  \A o \in Ops :
    (kind[o] \in {"post", "get", "delete"} /\ thrown[o] # None /\ withCallbacks)
    => /\ Calls(trace[o], "onError") = << <<"onError", thrown[o], req[o].sid>> >>
       /\ Initializes(o)
          => /\ req[o].sid = None
             /\ Calls(trace[o], "onError")[1][3] = None

\* C29 witness: an initialize failed in delivery after its channel had been
\* given an id and registered; onError received the error and undefined.
C29_Witness ==
  \E o \in Ops :
    /\ withCallbacks
    /\ Initializes(o)
    /\ thrown[o] # None
    /\ sessionId[made[o]] # None
    /\ <<sessionId[made[o]], made[o]>> \in transports
    /\ Calls(trace[o], "onError") = << <<"onError", thrown[o], None>> >>

\* some call named a comes before some call named b in seq
Precedes(seq, a, b) ==
  \E i, j \in 1..Len(seq) : i < j /\ seq[i][1] = a /\ seq[j][1] = b

\* the open of o is suspended in its binding, its sink has not closed and no
\* other channel carries the id of its channel
PendingOpen(o) ==
  /\ kind[o] = "open"
  /\ pc[o] = "binding"
  /\ made[o] # None
  /\ sinkCloses[o] = 0
  /\ \A c \in Chans : c # made[o] => sessionId[c] # sessionId[made[o]]

\* C30: in a streaming open that constructed its channel, the error hook and
\* the close hook are attached before the channel is inserted into the
\* registry under its own id, and the insertion comes before serverFactory
\* and connect are called; so while the binding is pending (sink not closed,
\* id not shared) the id resolves to the channel, and every deliver for that
\* id that entered after the open was delegated to that channel.
C30_OpenOrdering ==
  \A o \in Ops :
    (kind[o] = "open" /\ made[o] # None)
    => /\ Calls(trace[o], "insert") = << <<"insert", sessionId[made[o]], made[o]>> >>
       /\ Precedes(trace[o], "onerror=", "insert")
       /\ Precedes(trace[o], "onclose=", "insert")
       /\ ~Precedes(trace[o], "insert", "onerror=")
       /\ ~Precedes(trace[o], "insert", "onclose=")
       /\ ~Precedes(trace[o], "serverFactory", "insert")
       /\ ~Precedes(trace[o], "connect", "insert")
       /\ pc[o] = "binding" => Precedes(trace[o], "insert", "connect")
       /\ PendingOpen(o)
          => /\ Lookup(transports, sessionId[made[o]]) = made[o]
             /\ \A d \in Ops :
                  (d > o /\ kind[d] = "deliver" /\ req[d].sid = sessionId[made[o]])
                  => /\ tr[d] = made[o]
                     /\ Calls(trace[d], "handlePostMessage")
                          = << <<"handlePostMessage", made[o], 1>> >>

\* a deliver was delegated to the channel of an open that is still binding
C30_Witness ==
  \E o, d \in Ops :
    /\ PendingOpen(o)
    /\ kind[d] = "deliver"
    /\ req[d].sid = sessionId[made[o]]
    /\ pc[d] = "handling"
    /\ tr[d] = made[o]
    /\ Precedes(trace[o], "onerror=", "insert")
    /\ Precedes(trace[o], "insert", "connect")

\* C31: a stateless POST obtains at most one engine from the server factory
\* and constructs at most one channel, exactly one of each once construction
\* has not thrown; it connects and delegates to nothing but its own pair; no
\* engine and no channel of one call appears in another call, earlier or
\* concurrent; a request of another method creates nothing; and the stateless
\* coordinator keeps no registry entry and no session id from call to call.
C31_PerCallFreshness ==
  /\ mode = "stateless" => (transports = {} /\ \A c \in Chans : sessionId[c] = None)
  /\ \A o \in Ops :
       kind[o] = "stateless"
       => /\ Len(Calls(trace[o], "serverFactory")) <= 1
          /\ Len(Calls(trace[o], "new")) <= 1
          /\ req[o].method # "POST"
             => (Calls(trace[o], "serverFactory") = <<>> /\ made[o] = None)
          /\ (req[o].method = "POST" /\ Calls(trace[o], "connect") # <<>>)
             => /\ made[o] # None
                /\ Calls(trace[o], "new") = << <<"new", made[o], 0>> >>
                /\ Calls(trace[o], "serverFactory")
                     = << <<"serverFactory", boundTo[made[o]], 0>> >>
                /\ Calls(trace[o], "connect")
                     = << <<"connect", boundTo[made[o]], made[o]>> >>
                /\ \A i \in 1..Len(trace[o]) :
                     /\ trace[o][i][1] \in {"handleRequest", "transport.close"}
                        => trace[o][i][2] = made[o]
                     /\ trace[o][i][1] = "server.close"
                        => trace[o][i][2] = boundTo[made[o]]
          /\ \A p \in Ops \ {o} :
               kind[p] = "stateless"
               => /\ \A i \in 1..Len(trace[o]) : \A j \in 1..Len(trace[p]) :
                       (trace[o][i][1] = "serverFactory" /\ trace[p][j][1] = "serverFactory")
                       => trace[o][i][2] # trace[p][j][2]
                  /\ made[o] # None => made[o] # made[p]

\* two stateless POSTs are in progress at once, each with its own engine and
\* channel
C31_Witness ==
  \E o1, o2 \in Ops :
    /\ o1 < o2
    /\ kind[o1] = "stateless" /\ kind[o2] = "stateless"
    /\ pc[o1] = "handling" /\ pc[o2] = "binding"
    /\ made[o1] # None /\ made[o2] # None /\ made[o1] # made[o2]
    /\ boundTo[made[o1]] # boundTo[made[o2]]

\* the registry of instance i after the step
RegOfNext(i) == IF i = cur' THEN transports' ELSE other'

\* the 400 a coordinator answers to a request of kind k it cannot place
Rejection(k) ==
  IF k = "post" THEN Resp400Json
  ELSE IF k = "deliver" THEN Resp400NoTransport
  ELSE Resp400Text

\* C32 (frame): the registry of an instance changes only in a step run by a
\* closure of that instance (a handler of a request routed to it, or a hook
\* of a channel or response one of its handlers set up); a step of the other
\* instance, and the turn from one instance to the other, leave it as it is.
C32_FrameStep ==
  \A i \in Insts :
    RegOfNext(i) # RegOf(i)
    => /\ cur = i /\ cur' = i
       /\ \A e \in (RegOf(i) \ RegOfNext(i)) \cup (RegOfNext(i) \ RegOf(i)) :
            OwnerOf(e[2])' = i
       /\ \/ \E o \in Ops : inst[o] = i /\ (Enters(o) \/ SinkCloses(o))
          \/ \E c \in Chans : OwnerOf(c) = i /\ (Closes(c) \/ Registers(c))

\* C32 (lookup): a request that carries an id which only the other instance
\* holds is answered 400 and is given no channel.
C32_ProbeStep ==
  \A o \in Ops :
    (/\ Enters(o)
     /\ kind'[o] \in {"post", "get", "delete", "deliver"}
     /\ req'[o].sid \in Ids
     /\ Held(RegOf(3 - inst[o]), req'[o].sid)
     /\ ~Held(RegOf(inst[o]), req'[o].sid))
    => /\ out'[o] = <<Rejection(kind'[o])>>
       /\ tr'[o] = None
       /\ pc'[o] = "done"
       /\ Delegations(trace'[o]) = <<>>
       /\ transports' = transports
       /\ other' = other

\* C32 (channels): an operation is only ever given a channel that a handler
\* of its own instance constructed, and every registry entry of an instance
\* maps to a channel of that instance.
C32_OwnChannels ==
  /\ \A o \in Ops : tr[o] \in Chans => OwnerOf(tr[o]) = inst[o]
  /\ \A i \in Insts : \A e \in RegOf(i) : OwnerOf(e[2]) = i

\* C32: registries are private to their coordinator instance.
C32_PrivateRegistries ==
  [][C32_FrameStep /\ C32_ProbeStep]_vars /\ []C32_OwnChannels

\* a request routed to instance 2 carried an id that instance 1 holds and
\* instance 2 does not, and was answered 400
C32_Witness ==
  \E o \in Ops :
    /\ inst[o] = 2
    /\ kind[o] \in {"post", "get", "delete", "deliver"}
    /\ req[o].sid \in Ids
    /\ Held(RegOf(1), req[o].sid)
    /\ ~Held(RegOf(2), req[o].sid)
    /\ out[o] = <<Rejection(kind[o])>>
    /\ tr[o] = None

\* C33: a stateful POST whose mcp-session-id header names an id that is not
\* in the registry is answered with the structured 400 (code -32000, id null)
\* whether or not its body is an initialize message; it constructs no channel,
\* obtains no engine and leaves the registry unchanged.
C33_UnknownIdStep ==
  \A o \in Ops :
    (/\ Enters(o)
     /\ kind'[o] = "post"
     /\ req'[o].sid # None
     /\ ~Held(transports, req'[o].sid))
    => /\ out'[o] = << [status |-> 400, kind |-> "jsonrpc", code |-> -32000, id |-> "null",
                        message |-> "Invalid request: session ID required or initialization expected"] >>
       /\ pc'[o] = "done"
       /\ thrown'[o] = None
       /\ made'[o] = None
       /\ tr'[o] = None
       /\ nchan' = nchan
       /\ nsrv' = nsrv
       /\ transports' = transports

C33_UnknownIdIsNoInitialization == [][C33_UnknownIdStep]_vars

\* C34: in stateful mode, whenever the close hook of a channel removes a
\* registry entry, the entry mapped to that channel immediately before the
\* removal, whatever ids the generator returns (duplicates included).
C34_RemovedEntryStep ==
  \A c \in Chans :
    (mode = "stateful" /\ Closes(c))
    => \A e \in transports \ transports' : e[2] = c

C34_RemovedEntryIsOwn == [][C34_RemovedEntryStep]_vars

\* C35 (step): when the close hook of a stateful channel fires while the
\* channel has no session id, no callback is invoked and the registry is left
\* as it is.
C35_UnidentifiedCloseStep ==
  \A c \in Chans :
    (mode = "stateful" /\ Closes(c) /\ sessionId[c] = None)
    => /\ hookLog' = hookLog
       /\ transports' = transports
       /\ sessionId'[c] = None

\* C35 (order): a channel closed without an id has invoked nothing, and every
\* onSessionClosed(id) comes after an onSessionInitialized(id) of the same
\* channel.
C35_ClosedAfterInitialized ==
  \A c \in Chans :
    mode = "stateful"
    => /\ (chClosed[c] /\ sessionId[c] = None) => hookLog[c] = <<>>
       /\ \A j \in 1..Len(hookLog[c]) :
            hookLog[c][j][1] = "onSessionClosed"
            => \E i \in 1..(j - 1) :
                 /\ hookLog[c][i][1] = "onSessionInitialized"
                 /\ hookLog[c][i][2] = hookLog[c][j][2]

C36_CatchStep ==
  \A o \in Ops :
    (mode = "stateful" /\ kind[o] = "post" /\ Catches(o) /\ ~Enters(o))
    => /\ transports' = transports
       /\ chClosed' = chClosed
       /\ sessionId' = sessionId
       /\ boundTo' = boundTo
       /\ hookLog' = hookLog
       /\ Calls(trace'[o], "transport.close") = <<>>
       /\ Calls(trace'[o], "server.close") = <<>>
       /\ tr'[o] = tr[o] /\ srv'[o] = srv[o] /\ made'[o] = made[o]

\* C36 (reuse): a later POST that carries the id of a session whose entry is
\* in the registry is delegated to its channel, also when the operation that
\* registered the session has failed.
C36_ReuseStep ==
  \A o \in Ops : \A p \in Ops :
    (/\ mode = "stateful"
     /\ kind[o] = "post" /\ thrown[o] # None /\ made[o] # None
     /\ sessionId[made[o]] # None
     /\ <<sessionId[made[o]], made[o]>> \in transports
     /\ Enters(p)
     /\ kind'[p] = "post"
     /\ req'[p].sid = sessionId[made[o]])
    => /\ tr'[p] = made[o]
       /\ trace'[p] = << <<"handleRequest", made[o], 1>> >>
       /\ pc'[p] = "handling"
       /\ transports' = transports

\* C36: a failure of binding or delivery in a stateful POST leaves channel,
\* engine and registry as they are; a session registered before the failure,
\* also by the failing initialize itself, stays registered and is reused.
C36_FailureLeavesResources == [][C36_CatchStep /\ C36_ReuseStep]_vars

\* an initialize failed in delivery after its session was registered, and a
\* later POST with that id was delegated to its channel
C36_Witness ==
  \E o, p \in Ops :
    /\ mode = "stateful"
    /\ o < p
    /\ kind[o] = "post" /\ made[o] # None /\ thrown[o] # None
    /\ sessionId[made[o]] # None
    /\ <<sessionId[made[o]], made[o]>> \in transports
    /\ ~chClosed[made[o]]
    /\ kind[p] = "post" /\ req[p].sid = sessionId[made[o]]
    /\ tr[p] = made[o]
    /\ Calls(trace[p], "handleRequest") # <<>>

\* close calls on channel c (name "transport.close") or engine c (name
\* "server.close") made by operation o
ClosesOf(o, n, c) == SelectSeq(trace[o], LAMBDA ev : ev[1] = n /\ ev[2] = c)

\* C37: a stateless POST registers its sink-close listener only after the
\* delivery has returned without error; an operation that took the error path
\* has no listener, its listener never ran and onClose was not invoked; and
\* over the error path and the sink-close path together every channel and
\* every engine is closed at most once.
C37_ExclusiveClosePaths ==
  \A o \in Ops :
    kind[o] = "stateless"
    => /\ listening[o]
          => /\ pc[o] = "done"
             /\ thrown[o] = None
             /\ Precedes(trace[o], "handleRequest", "res.on")
             /\ ~Precedes(trace[o], "res.on", "handleRequest")
       /\ Calls(trace[o], "res.on") # <<>> => listening[o]
       /\ thrown[o] # None
          => /\ ~listening[o]
             /\ hookRuns[o] = 0
             /\ Calls(trace[o], "res.on") = <<>>
             /\ Calls(trace[o], "onClose") = <<>>
       /\ \A c \in Chans : \A p \in Ops :
            /\ Len(ClosesOf(o, "transport.close", c)) <= 1
            /\ Len(ClosesOf(o, "server.close", c)) <= 1
            /\ (p # o /\ kind[p] = "stateless")
               => /\ ClosesOf(o, "transport.close", c) = <<>>
                     \/ ClosesOf(p, "transport.close", c) = <<>>
                  /\ ClosesOf(o, "server.close", c) = <<>>
                     \/ ClosesOf(p, "server.close", c) = <<>>

\* the delivery of a stateless POST failed, its catch block closed channel and
\* engine, and afterwards the response emitted 'close' (twice), to no listener
C37_Witness ==
  \E o \in Ops :
    /\ kind[o] = "stateless"
    /\ withCallbacks
    /\ thrown[o] # None
    /\ Calls(trace[o], "handleRequest") # <<>>
    /\ sinkCloses[o] = 2
    /\ Len(ClosesOf(o, "transport.close", made[o])) = 1
    /\ Len(ClosesOf(o, "server.close", boundTo[made[o]])) = 1

\* the open of p failed after its channel had been inserted in the registry
FailedOpen(p) ==
  kind[p] = "open" /\ thrown[p] # None /\ made[p] # None

\* C38 (as stated): after engine binding failed in a streaming open whose
\* channel was inserted in the registry, the id of the channel resolves to
\* the channel as long as the output sink of the opening operation has not
\* closed.
C38_ResolvableUntilOwnSinkCloses ==
  \A p \in Ops :
    (FailedOpen(p) /\ sinkCloses[p] = 0)
    => Lookup(transports, sessionId[made[p]]) = made[p]

\* C38 (catch): the step in which an open catches the failure of engine
\* binding changes no registry entry, no channel and no listener; an open
\* whose engine creation fails has inserted its channel and leaves it there.
C38_CatchStep ==
  \A p \in Ops :
    (kind'[p] = "open" /\ Catches(p) /\ made'[p] # None)
    => /\ listening'[p]
       /\ chClosed' = chClosed
       /\ hookLog' = hookLog
       /\ Enters(p) => <<sessionId'[made'[p]], made'[p]>> \in transports'
       /\ ~Enters(p) => (transports' = transports /\ sessionId' = sessionId)

\* C38 (keep): the entry of the channel of a failed open leaves the registry
\* only when the output sink of an open whose channel carries the id closes,
\* or when an open registers a channel under the same id.
C38_KeepStep ==
  \A p \in Ops :
    (/\ FailedOpen(p)
     /\ <<sessionId[made[p]], made[p]>> \in transports
     /\ <<sessionId[made[p]], made[p]>> \notin transports')
    => \/ \E q \in Ops : /\ kind[q] = "open"
                         /\ made[q] # None
                         /\ SinkCloses(q)
                         /\ sessionId[made[q]] = sessionId[made[p]]
       \/ \E q \in Ops : /\ Enters(q)
                         /\ kind'[q] = "open"
                         /\ made'[q] # None
                         /\ sessionId'[made'[q]] = sessionId[made[p]]

\* C38 (deliver): while the entry is there, a deliver with the id is
\* delegated to the channel of the failed open.
C38_DeliverStep ==
  \A p \in Ops : \A d \in Ops :
    (/\ FailedOpen(p)
     /\ <<sessionId[made[p]], made[p]>> \in transports
     /\ Enters(d)
     /\ kind'[d] = "deliver"
     /\ req'[d].sid = sessionId[made[p]])
    => /\ tr'[d] = made[p]
       /\ trace'[d] = << <<"handlePostMessage", made[p], 1>> >>
       /\ pc'[d] = "handling"
       /\ transports' = transports

\* C38 (unique ids): when no other channel carries the id, the channel of a
\* failed open resolves until the sink of the opening operation closes.
C38_ResolvableInv ==
  \A p \in Ops :
    (/\ FailedOpen(p)
     /\ sinkCloses[p] = 0
     /\ \A c \in Chans : c # made[p] => sessionId[c] # sessionId[made[p]])
    => Lookup(transports, sessionId[made[p]]) = made[p]

\* C38 (amended): the failure handling of a streaming open does not remove
\* the entry; the channel stays resolvable by deliver until the output sink
\* of an open whose channel carries its id closes or an open registers a
\* channel under the same id.
C38_OpenFailureKeepsEntry ==
  [][C38_CatchStep /\ C38_KeepStep /\ C38_DeliverStep]_vars /\ []C38_ResolvableInv

\* the binding of an open failed, its sink has not closed, and a deliver with
\* the id of its channel was delegated to that channel
C38_Witness ==
  \E p, d \in Ops :
    /\ FailedOpen(p)
    /\ Calls(trace[p], "connect") # <<>>
    /\ sinkCloses[p] = 0
    /\ <<sessionId[made[p]], made[p]>> \in transports
    /\ kind[d] = "deliver"
    /\ req[d].sid = sessionId[made[p]]
    /\ tr[d] = made[p]
    /\ Calls(trace[d], "handlePostMessage") # <<>>

\* C39 (delegate): in the step in which an operation delegates to a channel
\* it found by lookup, that channel is the one the registry holds under the
\* requested id, and the step leaves the entry in place.
C39_DelegateStep ==
  \A o \in Ops :
    (Enters(o) /\ made'[o] = None /\ Delegations(trace'[o]) # <<>>)
    => /\ tr'[o] \in Chans
       /\ <<req'[o].sid, tr'[o]>> \in transports
       /\ Delegations(trace'[o]) = << <<trace'[o][1][1], tr'[o], trace'[o][1][3]>> >>
       /\ pc'[o] = "handling"
       /\ transports' = transports

\* C39 (afterwards): the entry of a channel an operation found by lookup
\* leaves the registry only after the delegate call was made, and the
\* operation keeps the channel it found: it makes no second delegate call and
\* its channel does not follow later changes of the registry.
C39_AfterwardsStep ==
  \A o \in Ops :
    LookedUp(o)
    => /\ tr'[o] = tr[o]
       /\ made'[o] = None
       /\ Delegations(trace'[o]) = Delegations(trace[o])
       /\ (<<req[o].sid, tr[o]>> \in transports /\ <<req[o].sid, tr[o]>> \notin transports')
          => /\ pc[o] \in {"handling", "done"}
             /\ Len(Delegations(trace[o])) = 1
             /\ ~Resumes(o)

\* C39: delegation targets the registered channel.
C39_DelegationTargetsRegistered == [][C39_DelegateStep /\ C39_AfterwardsStep]_vars

\* a delegated delivery to a looked-up channel completed after the entry of
\* that channel had left the registry; the operation kept the channel it found
C39_Witness ==
  \E o \in Ops :
    /\ LookedUp(o)
    /\ pc[o] = "done"
    /\ thrown[o] = None
    /\ req[o].sid \in Ids
    /\ ~Held(transports, req[o].sid)
    /\ Delegations(trace[o]) # <<>>
    /\ Delegations(trace[o])[1][2] = tr[o]
====
